---- MODULE Spec2Model ----
(***************************************************************************)
(* FSFS storage engine (subversion/libsvn_fs_fs/fs_fs.c): the commit       *)
(* pipeline, the global write lock, the per-transaction proto-revision     *)
(* lock and the revision-existence check, as a state machine.              *)
(*                                                                         *)
(* Threads ("workers") each own one svn_fs_t handle (fs_fs_data_t: the     *)
(* has_write_lock flag and youngest_rev_cache); the threads of one process *)
(* share fs_fs_shared_data_t (the transaction list with its being_written  *)
(* flags and the fs_write_lock mutex).  The repository on disk is shared   *)
(* by all processes.  A file lock belongs to the file handle that took it  *)
(* and is dropped when that handle is closed, i.e. when the pool the       *)
(* handle was opened in is destroyed.  The repository format is the        *)
(* newest one (no global ids in 'current', proto-revs in txn-protorevs).   *)
(*                                                                         *)
(* The functions that decide what a commit writes are specified apart, each *)
(* under a specification of its own over its own variables, which the      *)
(* commit pipeline's specification leaves at their initial values:         *)
(*   DeltaSpec  choose_delta_base along one file's line of history;        *)
(*   ShareSpec  get_shared_rep and the proto-rev file of one transaction;  *)
(*   FoldSpec   process_changes over the change records of one list.       *)
(* So are the maintenance operations:                                      *)
(*   HotSpec    svn_fs_fs__hotcopy from a repository that is committed to  *)
(*              and packed meanwhile.                                      *)
(*   UpSpec     svn_fs_fs__upgrade of a store of any supported format,     *)
(*              which may be cancelled, fail or crash at any step.         *)
(* The allocation of transaction ids is followed step by step in           *)
(*   IdSpec     create_txn_dir in two threads, with the transactions       *)
(*              purged in between.                                         *)
(* What is left of a transaction is followed in                            *)
(*   LifeSpec   one transaction that two threads write to, commit, abort   *)
(*              and open, the purge taken removal by removal.              *)
(* Changes of a revision property that race are followed in                *)
(*   PropSpec   svn_fs_fs__change_rev_prop called once by each of two      *)
(*              threads.                                                   *)
(* The in-memory cache the engine keeps its objects in is followed in      *)
(*   CacheSpec  svn_cache_set and svn_cache_get on a cache created with a  *)
(*              number of pages and of items per page.                     *)
(* The stores a representation is looked up in are followed in             *)
(*   LookupSpec one call of get_shared_rep, store by store, and the        *)
(*              caller's use of what it returns.                           *)
(* The ids a commit gives the node-revisions of its transaction are        *)
(* followed in                                                             *)
(*   FinalSpec  write_final_rev over one tree and write_final_current, in  *)
(*              a format with and in one without global ids.               *)
(* The rows svn_fs_fs__commit adds to the rep-sharing index after the      *)
(* write lock is released are part of the commit pipeline.                 *)
(***************************************************************************)
EXTENDS Integers, FiniteSets, Sequences, TLC

\* ---- bounds of the model ----
MaxTxns == 2      \* transactions ever begun
MaxFaults == 1    \* injected failures and process deaths

Workers == {"w1", "w2"}
Procs == {"p1", "p2"}
NoW == "none"
Txns == 1..MaxTxns
Revs == 0..MaxTxns
NoTxn == CHOOSE n \in 0..MaxTxns : n \notin Txns    \* no transaction
SVN_INVALID_REVNUM == -1

MaxHistory == 17  \* node-revisions in one file's line of history
MaxShared == 1    \* of them, those that took an existing representation
MaxSegments == 3  \* representations in a proto-rev file
MaxChanges == 3   \* change records in a changes list
MaxSrcRev == 4    \* youngest revision of a hotcopy's source
MaxPackedShards == 2   \* packed shards of a store that is upgraded
MaxBegins == 3    \* transaction ids returned by create_txn_dir
MaxBaseRev == 1   \* youngest base revision of a new transaction
MaxPages == 2     \* pages of a cache
MaxItemsPerPage == 2   \* items per page of a cache
MaxUpgrades == 2   \* calls of svn_fs_fs__upgrade on one store
MaxLocal == 2      \* node ids a transaction allocates
MaxCopies == 1     \* copy ids a transaction reserves
MaxFinalRev == 2   \* the revision a followed commit writes
MaxStart == 2      \* next node id and copy id in 'current' (older formats)

\* fsfs.conf defaults (svn_fs_fs__open -> read_config)
SVN_FS_FS_MAX_LINEAR_DELTIFICATION == 16
SVN_FS_FS_MAX_DELTIFICATION_WALK == 1023

VARIABLES
  procOf,             \* the process each thread runs in (fixed by the deployment)
  current,            \* the number in the 'current' file
  revFile,            \* revs/<r>: the txn whose proto-rev was moved there, or NoTxn
  revpropFile,        \* revprops/<r>: the txn whose props were moved there, or NoTxn
  txnCurrent,         \* the txn-current counter file
  txn,                \* per transaction: what exists on disk, its base revision and
                      \* the predecessor count of its root node-revision
  writeLock,          \* handle holding the file lock on 'lock'
  fsWriteMutex,       \* per process: thread holding ffsd->fs_write_lock
  protoLock,          \* per transaction: handle holding the lock on <txn>.rev-lock
  beingWritten,       \* per process: the ids whose object in ffsd->txns has being_written set
  pc,                 \* per worker: position in its current operation
  wtxn,               \* per worker: the transaction it operates on
  oldRev,             \* per worker: old_rev of commit_body
  cerr,               \* per worker: error carried out of commit_body
  newRevP,            \* per worker: *new_rev_p of svn_fs_fs__commit
  hasWriteLock,       \* per worker: ffd->has_write_lock
  youngestRevCache,   \* per worker: ffd->youngest_rev_cache
  cookie,             \* per worker: the call's lockcookie holds wtxn's proto-rev lock
  cleanupReg,         \* per worker: rep_write_cleanup registered on its baton pool
  faults              \* number of injected failures and process deaths so far

\* one file's line of history, for choose_delta_base
VARIABLES
  maxLinearDeltification,   \* ffd->max_linear_deltification
  maxDeltificationWalk,     \* ffd->max_deltification_walk
  nodeRevs,           \* the committed node-revisions of the file, oldest first: the
                      \* revision of each one's id and of its data_rep
  reps                \* per revision: the header of the representation of the file
                      \* written there, if any

\* the file contents written in one transaction, for get_shared_rep
VARIABLES
  repSharingAllowed,  \* ffd->rep_sharing_allowed
  repCache,           \* the SHA-1s the rep-cache holds, from committed revisions
  protoRev,           \* the proto-rev file: its representations in file order, each
                      \* with the SHA-1 of its contents and whether ENDREP is written
  sha1Files,          \* per SHA-1: the representation in the transaction's sidecar file
  dataRep,            \* per file: data_rep of its node-revision in the transaction
  baton,              \* the rep_write_baton of the open stream
  shareRev            \* the revision the transaction was written out as

\* the change records of one changes list, for process_changes
VARIABLES
  prefolded,      \* PREFOLDED: the list is a revision's, not a transaction's
  changedPaths,   \* the hash CHANGED_PATHS: per path its folded change
  prevPaths,      \* CHANGED_PATHS as it was before the last record was folded
  lastChange,     \* the last record folded
  foldErr,        \* "corrupt" once fold_change has failed
  folded,         \* the number of records read
  changedPathsP   \* *changed_paths_p of the caller

\* a hotcopy from the repository SRC into the directory DST
VARIABLES
  src,                   \* SRC on disk: 'current' and 'min-unpacked-rev'
  dst,                   \* DST on disk
  incremental,           \* hbb->incremental
  hpc,                   \* where svn_fs_fs__hotcopy stands
  hotResult,             \* "running", or how svn_fs_fs__hotcopy returned
  srcFfdMinUnpackedRev,  \* src_ffd->min_unpacked_rev
  hc                     \* the locals of hotcopy_body

\* an upgrade of the repository's format
VARIABLES
  up,        \* the store being upgraded and the locals of upgrade_body
  upc,       \* the step upgrade_body is about to do
  upResult   \* "running", or how svn_fs_fs__upgrade ended

\* the allocation of transaction ids (create_txn_dir)
VARIABLES
  txnCurrentFile,   \* the key in the txn-current file
  txnCurrentLock,   \* per process: the thread holding ffsd->txn_current_lock
  txnCurrentFlock,  \* the threads whose handle holds the lock on txn-current-lock
  idc,              \* per thread: where it stands in create_txn_dir
  cbTxnId,          \* per thread: cb.txn_id, the key it read
  idRev,            \* per thread: REV, the base revision of its transaction
  txnDirs,          \* the ids whose transaction directory exists
  returned          \* the ids the successful calls returned, in order

\* the life of one transaction T, written to, committed and aborted
\* through handles in two threads
VARIABLES
  txnFiles,     \* which of T's directory, proto-rev file and rev-lock file exist
  protoFlock,   \* the thread whose handle holds the lock on T's rev-lock file
  sharedTxn,    \* per process: T's object in ffsd->txns, and its being_written
  handle,       \* per thread: it has an svn_fs_txn_t for T
  tpc,          \* per thread: where it stands in its operation on T
  tres,         \* per thread: how its last operation on T ended
  raced         \* "purging" once a purge of T has begun, "late" once a write
                \* to T has been attempted after that

\* changes of one revision property by two threads
VARIABLES
  revprop,       \* the stored value of the property, or Absent
  revpropInit,   \* the value that was stored before the changes
  cbOldValue,    \* per thread: *cb->old_value_p, or AnyValue if cb->old_value_p is NULL
  cbValue,       \* per thread: cb->value
  presentValue,  \* per thread: present_value of change_rev_prop_body
  rpc,           \* per thread: where it stands in svn_fs_fs__change_rev_prop
  rpRes,         \* per thread: how its call returned
  rpMutex,       \* per process: the thread holding ffsd->fs_write_lock
  rpFlock        \* the threads whose handle holds the lock on the 'lock' file

\* a cache of revision numbers keyed by strings
VARIABLES
  cachePages,    \* the pages the cache was created with
  cacheItems,    \* the items_per_page the cache was created with
  cacheEntries,  \* the entries the cache holds, oldest first
  everSet,       \* the keys svn_cache_set was ever called with
  lastSet,       \* the key and value of the latest svn_cache_set
  got            \* the key, *found and *value of the svn_cache_get just made

\* one call of get_shared_rep and what its caller makes of it
VARIABLES
  lk,         \* what the call finds: the arguments and the three stores
  lkpc,       \* where the call stands
  lkTiers,    \* the stores consulted so far, in order
  lkOld,      \* *old_rep: the store the representation came from, or "none"
  lkErr,      \* the error the call returns, or "none"
  lkWarned,   \* fs->warning was called
  lkWrite     \* what the caller did with the representation it wrote

\* the rep-sharing index (rep-cache.db) of the repository
VARIABLES
  repCacheDb     \* its rows: a SHA-1 and the revision of the representation

\* the node-revisions of one transaction, written by one commit
VARIABLES
  finFormat,     \* ffd->format
  finRev,        \* the revision the commit writes
  finStart,      \* start_node_id and start_copy_id, read from 'current'
  finNextIds,    \* the transaction's next-ids file
  finTree,       \* the node-revisions under the transaction root
  finNewId,      \* *new_id_p of each call of write_final_rev
  finRevFile,    \* the node-revisions written to the proto-revision file
  finpc,         \* the node write_final_rev returns from next
  finCurrent,    \* what write_final_current wrote into 'current'
  finResult      \* "none", "running", "error", "committed"

disk == <<procOf, current, revFile, revpropFile, txnCurrent, txn>>
locks == <<writeLock, fsWriteMutex, protoLock>>
frame == <<oldRev, cerr, newRevP>>
fsVars == <<procOf, current, revFile, revpropFile, txnCurrent, txn, writeLock, fsWriteMutex,
            protoLock, beingWritten, pc, wtxn, oldRev, cerr, newRevP, hasWriteLock,
            youngestRevCache, cookie, cleanupReg, faults>>
deltaVars == <<maxLinearDeltification, maxDeltificationWalk, nodeRevs, reps>>
shareVars == <<repSharingAllowed, repCache, protoRev, sha1Files, dataRep, baton, shareRev>>
foldVars == <<prefolded, changedPaths, prevPaths, lastChange, foldErr, folded, changedPathsP>>
hotVars == <<src, dst, incremental, hpc, hotResult, srcFfdMinUnpackedRev, hc>>
upVars == <<up, upc, upResult>>
idVars == <<txnCurrentFile, txnCurrentLock, txnCurrentFlock, idc, cbTxnId, idRev,
            txnDirs, returned>>
lifeVars == <<txnFiles, protoFlock, sharedTxn, handle, tpc, tres, raced>>
propVars == <<revprop, revpropInit, cbOldValue, cbValue, presentValue, rpc, rpRes,
              rpMutex, rpFlock>>
cacheVars == <<cachePages, cacheItems, cacheEntries, everSet, lastSet, got>>
lookupVars == <<lk, lkpc, lkTiers, lkOld, lkErr, lkWarned, lkWrite>>
indexVars == <<repCacheDb>>
finalVars == <<finFormat, finRev, finStart, finNextIds, finTree, finNewId, finRevFile, finpc,
               finCurrent, finResult>>
funcVars == <<deltaVars, shareVars, foldVars, hotVars, upVars, idVars, lifeVars, propVars, cacheVars, lookupVars, indexVars, finalVars>>
deltaFrame == <<fsVars, shareVars, foldVars, hotVars, upVars, idVars, lifeVars, propVars, cacheVars, lookupVars, indexVars, finalVars>>
shareFrame == <<fsVars, deltaVars, foldVars, hotVars, upVars, idVars, lifeVars, propVars, cacheVars, lookupVars, indexVars, finalVars>>
foldFrame == <<fsVars, deltaVars, shareVars, hotVars, upVars, idVars, lifeVars, propVars, cacheVars, lookupVars, indexVars, finalVars>>
hotFrame == <<fsVars, deltaVars, shareVars, foldVars, upVars, idVars, lifeVars, propVars, cacheVars, lookupVars, indexVars, finalVars>>
upFrame == <<fsVars, deltaVars, shareVars, foldVars, hotVars, idVars, lifeVars, propVars, cacheVars, lookupVars, indexVars, finalVars>>
idFrame == <<fsVars, deltaVars, shareVars, foldVars, hotVars, upVars, lifeVars, propVars, cacheVars, lookupVars, indexVars, finalVars>>
lifeFrame == <<fsVars, deltaVars, shareVars, foldVars, hotVars, upVars, idVars, propVars, cacheVars, lookupVars, indexVars, finalVars>>
propFrame == <<fsVars, deltaVars, shareVars, foldVars, hotVars, upVars, idVars, lifeVars, cacheVars, lookupVars, indexVars, finalVars>>
cacheFrame == <<fsVars, deltaVars, shareVars, foldVars, hotVars, upVars, idVars, lifeVars, propVars, lookupVars, indexVars, finalVars>>
lookupFrame == <<fsVars, deltaVars, shareVars, foldVars, hotVars, upVars, idVars, lifeVars, propVars, cacheVars, indexVars, finalVars>>
finalFrame == <<fsVars, deltaVars, shareVars, foldVars, hotVars, upVars, idVars, lifeVars, propVars, cacheVars, lookupVars, indexVars>>
\* the variables the commit pipeline leaves alone but for the rep-sharing index
restVars == <<deltaVars, shareVars, foldVars, hotVars, upVars, idVars, lifeVars, propVars, cacheVars, lookupVars, finalVars>>
vars == <<fsVars, funcVars>>

NoTxnRec == [dir |-> FALSE, proto |-> FALSE, props |-> FALSE, base |-> 0, rootCount |-> 0]

\* A failure (an I/O error, a refused path lock, a process death) may be
\* injected while the budget lasts.
CanFault == faults < MaxFaults
Fault == faults' = faults + 1
NoFault == faults' = faults

\* write_revision_zero / svn_fs_fs__create: revision 0 with its revprops,
\* 'current' = 0, txn-current = 0, every handle freshly opened.  The two
\* threads run in one process or in two.
FsInit ==
  /\ procOf \in {[w \in Workers |-> "p1"],
                 [w \in Workers |-> IF w = "w1" THEN "p1" ELSE "p2"]}
  /\ current = 0
  /\ revFile = [r \in Revs |-> NoTxn]
  /\ revpropFile = [r \in Revs |-> NoTxn]
  /\ txnCurrent = 0
  /\ txn = [t \in Txns |-> NoTxnRec]
  /\ writeLock = NoW
  /\ fsWriteMutex = [p \in Procs |-> NoW]
  /\ protoLock = [t \in Txns |-> NoW]
  /\ beingWritten = [p \in Procs |-> {}]
  /\ pc = [w \in Workers |-> "idle"]
  /\ wtxn = [w \in Workers |-> NoTxn]
  /\ oldRev = [w \in Workers |-> 0]
  /\ cerr = [w \in Workers |-> "ok"]
  /\ newRevP = [w \in Workers |-> SVN_INVALID_REVNUM]
  /\ hasWriteLock = [w \in Workers |-> FALSE]
  /\ youngestRevCache = [w \in Workers |-> 0]
  /\ cookie = [w \in Workers |-> FALSE]
  /\ cleanupReg = [w \in Workers |-> FALSE]
  /\ faults = 0

\* No file has a history yet; the configuration is the default one.
DeltaNone ==
  /\ maxLinearDeltification = SVN_FS_FS_MAX_LINEAR_DELTIFICATION
  /\ maxDeltificationWalk = SVN_FS_FS_MAX_DELTIFICATION_WALK
  /\ nodeRevs = <<>>
  /\ reps = <<>>

\* write_final_rev: the revision the transaction becomes.
ShareNewRev == 2

Files == {"/a", "/b"}
Sha1s == {"same", "other"}

\* data_rep == NULL; no sidecar file
NoDataRep == [revision |-> SVN_INVALID_REVNUM, offset |-> -1, sha1 |-> "none"]

\* no stream is open
NoBaton == [file |-> "none", sha1 |-> "none", repOffset |-> -1]

\* An empty transaction.
ShareNone ==
  /\ repSharingAllowed = TRUE
  /\ repCache = {}
  /\ protoRev = <<>>
  /\ sha1Files = [c \in Sha1s |-> NoDataRep]
  /\ dataRep = [f \in Files |-> NoDataRep]
  /\ baton = NoBaton
  /\ shareRev = SVN_INVALID_REVNUM

\* The paths of the change records, as the characters strlen and
\* svn_dirent_is_child see: /d, its child /d/f, and its sibling /df.
Paths == {<<"/", "d">>, <<"/", "d", "/", "f">>, <<"/", "d", "f">>}

NodeRevIds == {"n1", "n2"}
NullId == "null"

\* copyfrom_rev == SVN_INVALID_REVNUM, copyfrom_path == NULL
NoCopyfrom == [rev |-> SVN_INVALID_REVNUM, path |-> ""]

\* no entry in the hash
NoChange ==
  [kind |-> "none", id |-> NullId, textMod |-> FALSE, propMod |-> FALSE,
   copyfrom |-> NoCopyfrom]

\* no record read yet
NoRecord ==
  [path |-> <<>>, kind |-> "none", id |-> NullId, textMod |-> FALSE,
   propMod |-> FALSE, copyfrom |-> NoCopyfrom]

\* *changed_paths_p before the fetch returns
NoList == [set |-> FALSE, paths |-> [p \in Paths |-> NoChange]]

\* apr_hash_make: a transaction's changes list with nothing read.
FoldNone ==
  /\ prefolded = FALSE
  /\ changedPaths = [p \in Paths |-> NoChange]
  /\ prevPaths = [p \in Paths |-> NoChange]
  /\ lastChange = NoRecord
  /\ foldErr = "none"
  /\ folded = 0
  /\ changedPathsP = NoList

\* max_files_per_dir of SRC and DST
MaxFilesPerDir == 2

Shard(rev) == rev \div MaxFilesPerDir
ShardRevs(shard) == (shard * MaxFilesPerDir)..(shard * MaxFilesPerDir + MaxFilesPerDir - 1)
HotRevs == 0..MaxSrcRev

\* The directory DST before anything is created in it.
EmptyDst ==
  [format |-> FALSE, uuid |-> "none", current |-> SVN_INVALID_REVNUM, minUnpacked |-> 0,
   revShards |-> {}, revFiles |-> {}, packedShards |-> {},
   revpropShards |-> {}, revpropFiles |-> {}, packedRevprops |-> {},
   staleRevprops |-> {}]

\* the locals of hotcopy_body before they are assigned
NoLocals ==
  [src_youngest |-> 0, dst_youngest |-> 0, src_min_unpacked_rev |-> 0,
   dst_min_unpacked_rev |-> 0, rev |-> 0]

\* No hotcopy: SRC with revision 0 and nothing to copy it into.
HotNone ==
  /\ src = [current |-> 0, minUnpacked |-> 0]
  /\ dst = EmptyDst
  /\ incremental = FALSE
  /\ hpc = "h_start"
  /\ hotResult = "ok"
  /\ srcFfdMinUnpackedRev = 0
  /\ hc = NoLocals

\* the format numbers of fs.h
SVN_FS_FS__FORMAT_NUMBER == 6
SVN_FS_FS__MIN_TXN_CURRENT_FORMAT == 3
SVN_FS_FS__MIN_NO_GLOBAL_IDS_FORMAT == 3
SVN_FS_FS__MIN_PROTOREVS_DIR_FORMAT == 3
SVN_FS_FS__MIN_PACKED_FORMAT == 4
SVN_FS_FS__MIN_PACKED_REVPROP_FORMAT == 6
SVN_FS_FS__PACKED_REVPROP_SQLITE_DEV_FORMAT == 5

\* No upgrade: a store of the current format.
UpNone ==
  /\ up = [formatFile |-> SVN_FS_FS__FORMAT_NUMBER, format |-> 0, sharded |-> FALSE,
           artifacts |-> {}, packedShards |-> 0, revpropPacks |-> 0,
           unpackedRevprops |-> 0, shard |-> 0, runs |-> 0, lateStop |-> FALSE]
  /\ upc = "u_start"
  /\ upResult = "ok"

\* No transaction id is being allocated.
IdNone ==
  /\ txnCurrentFile = 0
  /\ txnCurrentLock = [p \in Procs |-> NoW]
  /\ txnCurrentFlock = {}
  /\ idc = [w \in Workers |-> "idle"]
  /\ cbTxnId = [w \in Workers |-> 0]
  /\ idRev = [w \in Workers |-> 0]
  /\ txnDirs = {}
  /\ returned = <<>>

\* No transaction is followed.
LifeNone ==
  /\ txnFiles = [dir |-> FALSE, proto |-> FALSE, lock |-> FALSE]
  /\ protoFlock = NoW
  /\ sharedTxn = [p \in Procs |-> "none"]
  /\ handle = [w \in Workers |-> FALSE]
  /\ tpc = [w \in Workers |-> "idle"]
  /\ tres = [w \in Workers |-> "none"]
  /\ raced = "none"

\* the values of a revision property; a NULL svn_string_t is Absent
PropValues == {"a", "b"}
Absent == "absent"
AnyValue == "any"

\* No revision property is being changed.
PropNone ==
  /\ revprop = Absent
  /\ revpropInit = Absent
  /\ cbOldValue = [w \in Workers |-> AnyValue]
  /\ cbValue = [w \in Workers |-> Absent]
  /\ presentValue = [w \in Workers |-> Absent]
  /\ rpc = [w \in Workers |-> "idle"]
  /\ rpRes = [w \in Workers |-> "none"]
  /\ rpMutex = [p \in Procs |-> NoW]
  /\ rpFlock = {}

\* the keys and values of the cache
CacheKeys == {"twenty", "thirty", "forty"}
CacheValues == {20, 30}
NoEntry == [key |-> "", value |-> -1]
NoGet == [key |-> "", found |-> FALSE, value |-> -1]

\* No cache was created.
CacheNone ==
  /\ cachePages = 0
  /\ cacheItems = 0
  /\ cacheEntries = <<>>
  /\ everSet = {}
  /\ lastSet = NoEntry
  /\ got = NoGet

\* what svn_fs_fs__get_rep_reference and svn_fs_fs__check_rep can come to:
\* no row, a row that checks out, a row that svn_fs_fs__check_rep refuses,
\* SVN_ERR_FS_CORRUPT (a row for a revision beyond the youngest among
\* them), an error of the malfunction category, any other error
DbOutcomes == {"miss", "hit", "badrep", "corrupt", "malfunction", "other"}

\* No representation is being looked up.
LookupNone ==
  /\ lk = [allowed |-> FALSE, hashGiven |-> FALSE, inHash |-> FALSE,
           db |-> "miss", txnId |-> FALSE, inFile |-> FALSE]
  /\ lkpc = "idle"
  /\ lkTiers = <<>>
  /\ lkOld = "none"
  /\ lkErr = "none"
  /\ lkWarned = FALSE
  /\ lkWrite = "none"

\* the SHA-1s of the representations commits write
RepSha1s == {"x", "y"}

\* The rep-sharing index is empty.
IndexNone == repCacheDb = {}

\* A node id or copy id.  FRESH: the key was allocated in the transaction
\* and carries the '_' prefix; VAL: its base-36 value; REV: its "-<rev>"
\* suffix, or NoSuffix.
NoSuffix == -1
Key(fresh, val, rev) == [fresh |-> fresh, val |-> val, rev |-> rev]
PlainKey(val) == Key(FALSE, val, NoSuffix)

\* svn_fs_fs__id_txn_create and svn_fs_fs__id_rev_create; NoId is NULL
IdTxnCreate(node_id, copy_id) ==
  [node_id |-> node_id, copy_id |-> copy_id, txn_id |-> TRUE,
   rev |-> SVN_INVALID_REVNUM, offset |-> 0]
IdRevCreate(node_id, copy_id, rev, offset) ==
  [node_id |-> node_id, copy_id |-> copy_id, txn_id |-> FALSE, rev |-> rev,
   offset |-> offset]
NoId == IdRevCreate(PlainKey(0), PlainKey(0), SVN_INVALID_REVNUM, 0)

\* The followed tree: the root directory with the directory "a" and the
\* file "f" in it, and the file "g" in "a".
FinalNodes == {"root", "a", "f", "g"}
FinalDirs == {"root", "a"}
FinalParent == [a |-> "root", f |-> "root", g |-> "a"]
FinalChildren(n) == {c \in FinalNodes \ {"root"} : FinalParent[c] = n}

\* A node-revision: where it is ("absent", "rev": in an earlier revision,
\* "txn": in the transaction), its id, and whether its data_rep has a
\* txn_id.
Noderev(state, id, data_rep_txn) ==
  [state |-> state, id |-> id, data_rep_txn |-> data_rep_txn]
NoNoderev == Noderev("absent", NoId, FALSE)

\* the NULL start ids of the formats without global ids
NoStart == [node |-> 0, copy |-> 0]

\* a node-revision of the revision file: its id and, of a directory, the
\* ids its entries name
Written(id, entries) == [id |-> id, entries |-> entries]
NotWritten == Written(NoId, [c \in {} |-> NoId])

\* No commit is followed.
FinalNone ==
  /\ finFormat = 0
  /\ finRev = 0
  /\ finStart = NoStart
  /\ finNextIds = [node |-> 0, copy |-> 0]
  /\ finTree = [n \in FinalNodes |-> NoNoderev]
  /\ finNewId = [n \in FinalNodes |-> NoId]
  /\ finRevFile = [n \in FinalNodes |-> NotWritten]
  /\ finpc = 0
  /\ finCurrent = [rev |-> 0, next |-> NoStart]
  /\ finResult = "none"

Init == FsInit /\ DeltaNone /\ ShareNone /\ FoldNone /\ HotNone /\ UpNone /\ IdNone /\ LifeNone /\ PropNone /\ CacheNone /\ LookupNone /\ IndexNone /\ FinalNone

\* A revision's two files: those of revision 0 are written at creation.
RevFileExists(r) == r = 0 \/ revFile[r] # NoTxn
RevpropFileExists(r) == r = 0 \/ revpropFile[r] # NoTxn

\* A get_youngest that takes the highest revision file for the youngest
\* revision.
GetYoungestByRevFiles ==
  CHOOSE r \in Revs : RevFileExists(r) /\ \A q \in Revs : RevFileExists(q) => q <= r

\* get_youngest: the youngest revision is the number in the 'current' file.
GetYoungest == current

\* The predecessor count of the root node-revision of revision R, read
\* from its revision file: "count: 0" in revision 0 (write_revision_zero),
\* otherwise what write_final_rev copied from the transaction's root.
RootPredecessorCount(r) == IF r = 0 THEN 0 ELSE txn[revFile[r]].rootCount

\* A create_new_txn_noderev_from_rev that copies the count as it is.
NewTxnRootCountKept(srcCount) == srcCount

\* create_new_txn_noderev_from_rev: noderev->predecessor_count++
NewTxnRootCount(srcCount) == srcCount + 1

\* validate_root_noderev: the check of a candidate root for revision REV
\* against the root of REV - 1, which svn_fs_fs__revision_root must find.
ValidateRootNoderevFails(rootCount, rev) ==
  IF rev - 1 \in Revs /\ RevFileExists(rev - 1)
    THEN /\ rootCount # -1
         /\ rootCount - RootPredecessorCount(rev - 1) # rev - (rev - 1)
    ELSE TRUE

\* svn_fs_fs__open_txn: the transaction directory must exist.
TxnOpenable(t) == txn[t].dir

\* svn_fs_fs__begin_txn -> svn_fs_fs__create_txn -> create_txn_dir: read
\* and bump txn-current, create the directory with the root node-revision
\* (create_new_txn_noderev_from_rev on the root of the base revision), the
\* changes file, next-ids and the props, and the proto-rev file with its
\* lock file.
BeginTxn(w) ==
  /\ pc[w] = "idle"
  /\ txnCurrent < MaxTxns
  /\ \E base \in 0..current :
       txn' = [txn EXCEPT ![txnCurrent + 1] =
                 [dir |-> TRUE, proto |-> TRUE, props |-> TRUE, base |-> base,
                  rootCount |-> NewTxnRootCount(RootPredecessorCount(base))]]
  /\ txnCurrent' = txnCurrent + 1
  /\ UNCHANGED <<procOf, current, revFile, revpropFile, locks, beingWritten, pc, wtxn,
                 frame, hasWriteLock, youngestRevCache, cookie, cleanupReg, faults,
                 funcVars>>

\* ---- the per-transaction proto-revision lock ----

\* A transaction without an object in the process's list (get_shared_txn,
\* free_shared_txn) behaves as one whose object has being_written FALSE:
\* get_writable_proto_rev_body creates the object with the flag FALSE, and
\* unlock_proto_rev_body answers SVN_ERR_FS_CORRUPT for "unknown" and for
\* "nonlocked" alike.  So the list is kept as the set of flagged ids.  The
\* lock file is opened with APR_CREATE, so its absence changes nothing.

\* unlock_proto_rev_body: what it returns.  FAIL says whether
\* apr_file_unlock fails.
UnlockProtoRevErr(p, t, fail) ==
  IF t \notin beingWritten[p] THEN "error"
  ELSE IF fail THEN "error"
  ELSE "ok"

\* unlock_proto_rev_body: the being_written flags it leaves.
UnlockProtoRevFlags(p, t, fail) ==
  IF UnlockProtoRevErr(p, t, fail) = "ok"
    THEN [beingWritten EXCEPT ![p] = @ \ {t}]
    ELSE beingWritten

\* unlock_proto_rev_body: the file lock it leaves.  The cookie of worker W
\* releases the lock only if W's handle is the one holding it.
UnlockProtoRevLock(w, t, fail) ==
  IF UnlockProtoRevErr(procOf[w], t, fail) = "ok" /\ protoLock[t] = w
    THEN [protoLock EXCEPT ![t] = NoW]
    ELSE protoLock

\* A get_writable_proto_rev_body that trusts the in-memory flag alone and
\* never looks at the file lock.
GetWritableProtoRevOutcomeFlagOnly(w, t) ==
  IF t \in beingWritten[procOf[w]] THEN {"rbw"}
  ELSE IF ~txn[t].proto THEN {"error"}
  ELSE {"ok"} \cup (IF CanFault THEN {"error"} ELSE {})

\* get_writable_proto_rev_body, run under the txn-list mutex, hence atomic
\* for the threads of the process.  What it can return:
\*   "rbw"    being_written is set in this process, or the non-blocking
\*            file lock is held by another handle (EAGAIN);
\*   "error"  the lock was taken, opening the proto-rev file failed (it
\*            does not exist, or an injected failure) and the lock was
\*            given back;
\*   "ok"     the caller holds the flag, the file lock and a write handle.
GetWritableProtoRevOutcome(w, t) ==
  IF t \in beingWritten[procOf[w]] THEN {"rbw"}
  ELSE IF protoLock[t] # NoW THEN {"rbw"}
  ELSE IF ~txn[t].proto THEN {"error"}
  ELSE {"ok"} \cup (IF CanFault THEN {"error"} ELSE {})

\* A get_writable_proto_rev_body that sets the flag and opens the file
\* without locking the lock file.
GetWritableProtoRevUnlocked(w, t, out) ==
  /\ out \in GetWritableProtoRevOutcome(w, t)
  /\ IF out = "ok"
       THEN /\ beingWritten' = [beingWritten EXCEPT ![procOf[w]] = @ \cup {t}]
            /\ UNCHANGED protoLock
            /\ NoFault
       ELSE /\ UNCHANGED <<beingWritten, protoLock>>
            /\ IF out = "error" /\ txn[t].proto THEN Fault ELSE NoFault

\* get_writable_proto_rev_body: its effect, for the outcome OUT.
GetWritableProtoRev(w, t, out) ==
  /\ out \in GetWritableProtoRevOutcome(w, t)
  /\ IF out = "ok"
       THEN /\ beingWritten' = [beingWritten EXCEPT ![procOf[w]] = @ \cup {t}]
            /\ protoLock' = [protoLock EXCEPT ![t] = w]
            /\ NoFault
       ELSE /\ UNCHANGED <<beingWritten, protoLock>>
            /\ IF out = "error" /\ txn[t].proto THEN Fault ELSE NoFault

\* ---- writing file contents into the proto-revision file ----

\* rep_write_get_baton (svn_fs_fs__set_contents): take the proto-rev lock,
\* choose the delta base, write the representation header, register
\* rep_write_cleanup.
WriteOpen(w, t) ==
  /\ pc[w] = "idle"
  /\ TxnOpenable(t)
  /\ \E out \in GetWritableProtoRevOutcome(w, t) :
       /\ GetWritableProtoRev(w, t, out)
       /\ IF out = "ok"
            THEN /\ pc' = [pc EXCEPT ![w] = "writing"]
                 /\ wtxn' = [wtxn EXCEPT ![w] = t]
                 /\ cleanupReg' = [cleanupReg EXCEPT ![w] = TRUE]
            ELSE UNCHANGED <<pc, wtxn, cleanupReg>>
  /\ UNCHANGED <<disk, writeLock, fsWriteMutex, frame, hasWriteLock, youngestRevCache,
                 cookie, funcVars>>

\* rep_write_get_baton failing after get_writable_proto_rev succeeded
\* (svn_fs_fs__get_file_offset, choose_delta_base, svn_fs_fs__get_contents,
\* svn_fs_fs__write_rep_header): SVN_ERR returns with the flag set, the
\* lock held by the handle in the baton pool, and no cleanup registered.
WriteOpenFail(w, t) ==
  /\ pc[w] = "idle"
  /\ TxnOpenable(t)
  /\ CanFault
  /\ "ok" \in GetWritableProtoRevOutcome(w, t)
  /\ beingWritten' = [beingWritten EXCEPT ![procOf[w]] = @ \cup {t}]
  /\ protoLock' = [protoLock EXCEPT ![t] = w]
  /\ Fault
  /\ UNCHANGED <<disk, writeLock, fsWriteMutex, pc, wtxn, frame, hasWriteLock,
                 youngestRevCache, cookie, cleanupReg, funcVars>>

\* rep_write_contents_close, all steps succeeding up to unlock_proto_rev,
\* whose result it returns.
WriteClose(w) ==
  /\ pc[w] = "writing"
  /\ txn[wtxn[w]].dir
  /\ beingWritten' = UnlockProtoRevFlags(procOf[w], wtxn[w], FALSE)
  /\ protoLock' = UnlockProtoRevLock(w, wtxn[w], FALSE)
  /\ cleanupReg' = [cleanupReg EXCEPT ![w] = FALSE]
  /\ pc' = [pc EXCEPT ![w] = "idle"]
  /\ wtxn' = [wtxn EXCEPT ![w] = NoTxn]
  /\ UNCHANGED <<disk, writeLock, fsWriteMutex, frame, hasWriteLock, youngestRevCache,
                 cookie, faults, funcVars>>

\* rep_write_contents_close failing.  EARLY: a step before
\* apr_pool_cleanup_kill fails (also when next-ids is gone with the txn
\* directory), the cleanup stays registered.  Otherwise a step after it
\* fails (put_node_revision, store_sha1_rep_mapping, svn_io_file_close,
\* apr_file_unlock inside unlock_proto_rev): the flag stays set.
WriteCloseFail(w, early) ==
  /\ pc[w] = "writing"
  /\ IF early /\ ~txn[wtxn[w]].dir THEN NoFault ELSE CanFault /\ Fault
  /\ ~early => txn[wtxn[w]].dir
  /\ cleanupReg' = [cleanupReg EXCEPT ![w] = early]
  /\ pc' = [pc EXCEPT ![w] = IF early THEN "w_failed" ELSE "idle"]
  /\ wtxn' = [wtxn EXCEPT ![w] = IF early THEN @ ELSE NoTxn]
  /\ UNCHANGED <<disk, locks, beingWritten, frame, hasWriteLock, youngestRevCache,
                 cookie, funcVars>>

\* The pool a writer's handles live in is destroyed by its owner: a
\* registered rep_write_cleanup runs unlock_proto_rev, then every file
\* handle of the pool is closed, which drops the file locks it holds.
PoolDestroy(w) ==
  /\ pc[w] \in {"idle", "writing", "w_failed"}
  /\ cleanupReg[w] \/ (\E t \in Txns : protoLock[t] = w)
  /\ beingWritten' = IF cleanupReg[w]
                       THEN UnlockProtoRevFlags(procOf[w], wtxn[w], FALSE)
                       ELSE beingWritten
  /\ protoLock' = [t \in Txns |-> IF protoLock[t] = w THEN NoW ELSE protoLock[t]]
  /\ cleanupReg' = [cleanupReg EXCEPT ![w] = FALSE]
  /\ pc' = [pc EXCEPT ![w] = "idle"]
  /\ wtxn' = [wtxn EXCEPT ![w] = NoTxn]
  /\ UNCHANGED <<disk, writeLock, fsWriteMutex, frame, hasWriteLock, youngestRevCache,
                 cookie, faults, funcVars>>

\* ---- purging a transaction ----

\* svn_fs_fs__purge_txn: purge_shared_txn, then remove the directory, the
\* proto-rev file and its lock file, stopping at the first failure.
\* FAILAT names the removal an injected failure hits ("none": no failure);
\* removing a directory that is not there fails by itself.
PurgeErr(t, failAt) ==
  IF ~txn[t].dir THEN "error"
  ELSE IF failAt # "none" THEN "error"
  ELSE "ok"

\* svn_fs_fs__purge_txn: the files it leaves.
PurgeTxnFiles(t, failAt) ==
  IF ~txn[t].dir \/ failAt = "dir" THEN txn
  ELSE IF failAt = "proto" THEN [txn EXCEPT ![t].dir = FALSE, ![t].props = FALSE]
  ELSE [txn EXCEPT ![t].dir = FALSE, ![t].props = FALSE, ![t].proto = FALSE]

\* Removing the lock file leaves a holder with a lock on an unlinked file;
\* the path is free to be created and locked again.
PurgeTxnLock(t, failAt) ==
  IF txn[t].dir /\ failAt = "none" THEN [protoLock EXCEPT ![t] = NoW] ELSE protoLock

\* purge_shared_txn_body -> free_shared_txn
FreeSharedTxn(p, t) == [beingWritten EXCEPT ![p] = @ \ {t}]

PurgeFailPoints == {"none"} \cup (IF CanFault THEN {"dir", "proto", "lock"} ELSE {})

\* svn_fs_fs__abort_txn
AbortTxn(w, t) ==
  /\ pc[w] = "idle"
  /\ TxnOpenable(t)
  /\ \E failAt \in PurgeFailPoints :
       /\ beingWritten' = FreeSharedTxn(procOf[w], t)
       /\ txn' = PurgeTxnFiles(t, failAt)
       /\ protoLock' = PurgeTxnLock(t, failAt)
       /\ IF failAt = "none" THEN NoFault ELSE Fault
  /\ UNCHANGED <<procOf, current, revFile, revpropFile, txnCurrent, writeLock,
                 fsWriteMutex, pc, wtxn, frame, hasWriteLock, youngestRevCache, cookie,
                 cleanupReg, funcVars>>

\* ---- the commit pipeline: svn_fs_fs__commit ----

\* commit_body: "We are going to be one better than this puny old revision."
NewRev(w) == oldRev[w] + 1

\* A commit_body without the freshness check.
TxnNeverOutOfDate(t, old_rev) == FALSE

\* commit_body: the freshness check.
TxnOutOfDate(t, old_rev) == txn[t].base # old_rev

\* A commit_body that moves the proto-rev file onto the youngest revision.
RevFilenameRevOld(w) == oldRev[w]

\* commit_body: rev_filename = path_rev(new_rev), the revision whose file
\* the first move_into_place installs.
RevFilenameRev(w) == NewRev(w)

\* A commit_body that moves the props onto the youngest revision's.
RevpropsFilenameRevOld(w) == oldRev[w]

\* commit_body: revprop_filename = path_revprops(new_rev), the revision
\* whose properties the second move_into_place installs.
RevpropsFilenameRev(w) == NewRev(w)

\* A commit_body that writes the revision it read back to 'current'.
FinalCurrentOld(w) == oldRev[w]

\* commit_body: write_final_current(..., new_rev, ...), the revision that
\* 'current' names from then on.
FinalCurrent(w) == NewRev(w)

\* A commit_body that never stores the new revision for the caller.
ReportedRevNone(w) == SVN_INVALID_REVNUM

\* commit_body: *cb->new_rev_p = new_rev, once 'current' is written.
ReportedRev(w) == NewRev(w)

\* svn_fs_fs__move_into_place (rename): fails only if the source is gone;
\* an existing destination is replaced.
MoveIntoPlaceFails(srcExists, dstExists) == ~srcExists

\* A get_lock_on_filesystem that never waits.
WriteLockAlwaysFree == TRUE

\* get_lock_on_filesystem blocks until no other handle holds the lock.
WriteLockFree == writeLock = NoW

\* svn_fs_fs__commit returns: its locals are gone.
Return(w) ==
  /\ pc' = [pc EXCEPT ![w] = "idle"]
  /\ wtxn' = [wtxn EXCEPT ![w] = NoTxn]
  /\ oldRev' = [oldRev EXCEPT ![w] = 0]
  /\ cerr' = [cerr EXCEPT ![w] = "ok"]
  /\ newRevP' = [newRevP EXCEPT ![w] = SVN_INVALID_REVNUM]

\* A failing step of commit_body returns through with_some_lock_file.
Fail(w, e) ==
  /\ pc' = [pc EXCEPT ![w] = "c_unlock"]
  /\ cerr' = [cerr EXCEPT ![w] = e]

\* svn_fs_fs__commit on an opened transaction, up to
\* svn_fs_fs__with_write_lock: SVN_MUTEX__WITH_LOCK(ffsd->fs_write_lock, ...)
\* waits for the process's mutex.
CommitBegin(w, t) ==
  /\ pc[w] = "idle"
  /\ TxnOpenable(t)
  /\ fsWriteMutex[procOf[w]] = NoW
  /\ fsWriteMutex' = [fsWriteMutex EXCEPT ![procOf[w]] = w]
  /\ pc' = [pc EXCEPT ![w] = "c_flock"]
  /\ wtxn' = [wtxn EXCEPT ![w] = t]
  /\ cerr' = [cerr EXCEPT ![w] = "ok"]
  /\ newRevP' = [newRevP EXCEPT ![w] = SVN_INVALID_REVNUM]
  /\ UNCHANGED <<disk, writeLock, protoLock, beingWritten, oldRev, hasWriteLock,
                 youngestRevCache, cookie, cleanupReg, faults, funcVars>>

\* with_some_lock_file: get_lock_on_filesystem, register reset_lock_flag,
\* set has_write_lock, then svn_fs_fs__update_min_unpacked_rev and
\* get_youngest refresh the handle's caches.
CommitFileLock(w) ==
  /\ pc[w] = "c_flock"
  /\ WriteLockFree
  /\ writeLock' = w
  /\ hasWriteLock' = [hasWriteLock EXCEPT ![w] = TRUE]
  /\ youngestRevCache' = [youngestRevCache EXCEPT ![w] = GetYoungest]
  /\ pc' = [pc EXCEPT ![w] = "c_body"]
  /\ UNCHANGED <<disk, fsWriteMutex, protoLock, beingWritten, wtxn, frame, cookie,
                 cleanupReg, faults, funcVars>>

\* with_some_lock_file: the lock is taken, one of the two refreshes fails
\* and SVN_ERR returns at once: the subpool is not destroyed, so the lock
\* file handle stays open and reset_lock_flag does not run;
\* SVN_MUTEX__WITH_LOCK unlocks the mutex on the way out.
CommitRefreshFail(w) ==
  /\ pc[w] = "c_flock"
  /\ WriteLockFree
  /\ CanFault /\ Fault
  /\ writeLock' = w
  /\ hasWriteLock' = [hasWriteLock EXCEPT ![w] = TRUE]
  /\ fsWriteMutex' = [fsWriteMutex EXCEPT ![procOf[w]] = NoW]
  /\ Return(w)
  /\ UNCHANGED <<disk, protoLock, beingWritten, youngestRevCache, cookie, cleanupReg,
                 funcVars>>

\* The pool handed to a call that left its subpool behind is destroyed by
\* its owner: reset_lock_flag runs and the lock file handle is closed.
ReleaseLeakedWriteLock(w) ==
  /\ writeLock = w
  /\ pc[w] \in {"idle", "writing", "w_failed", "c_flock"}
  /\ writeLock' = NoW
  /\ hasWriteLock' = [hasWriteLock EXCEPT ![w] = FALSE]
  /\ UNCHANGED <<disk, fsWriteMutex, protoLock, beingWritten, pc, wtxn, frame,
                 youngestRevCache, cookie, cleanupReg, faults, funcVars>>

\* commit_body: svn_fs_fs__youngest_rev, the freshness check, verify_locks
\* (which reads the changes file in the transaction directory and fails
\* with the first path-lock violation), then get_writable_proto_rev.
CommitStart(w) ==
  /\ pc[w] = "c_body"
  /\ LET t == wtxn[w] IN
     \/ /\ CanFault /\ Fault
        /\ Fail(w, "error")
        /\ UNCHANGED <<oldRev, youngestRevCache, beingWritten, protoLock, cookie>>
     \/ /\ oldRev' = [oldRev EXCEPT ![w] = GetYoungest]
        /\ youngestRevCache' = [youngestRevCache EXCEPT ![w] = GetYoungest]
        /\ IF TxnOutOfDate(t, GetYoungest)
             THEN /\ Fail(w, "out_of_date") /\ NoFault
                  /\ UNCHANGED <<beingWritten, protoLock, cookie>>
             ELSE IF ~txn[t].dir
               THEN /\ Fail(w, "error") /\ NoFault
                    /\ UNCHANGED <<beingWritten, protoLock, cookie>>
               ELSE \/ /\ CanFault /\ Fault
                       /\ Fail(w, "path_locked")
                       /\ UNCHANGED <<beingWritten, protoLock, cookie>>
                    \/ \E out \in GetWritableProtoRevOutcome(w, t) :
                         /\ GetWritableProtoRev(w, t, out)
                         /\ IF out = "ok"
                              THEN /\ pc' = [pc EXCEPT ![w] = "c_moverev"]
                                   /\ cookie' = [cookie EXCEPT ![w] = TRUE]
                                   /\ UNCHANGED cerr
                              ELSE Fail(w, out) /\ UNCHANGED cookie
  /\ UNCHANGED <<disk, writeLock, fsWriteMutex, wtxn, newRevP, hasWriteLock, cleanupReg,
                 funcVars>>

\* commit_body: write_final_rev (which validates the root node-revision),
\* write_final_changed_path_info, the trailer, flush and close, the flag
\* props and the shard directories (all of which read the transaction
\* directory); then "Move the finished rev file into place."
CommitMoveRev(w) ==
  /\ pc[w] = "c_moverev"
  /\ LET t == wtxn[w]
         r == RevFilenameRev(w)
         fails == \/ ~txn[t].dir
                  \/ ValidateRootNoderevFails(txn[t].rootCount, NewRev(w))
                  \/ MoveIntoPlaceFails(txn[t].proto, RevFileExists(r))
     IN \/ /\ ~fails
           /\ revFile' = [revFile EXCEPT ![r] = t]
           /\ txn' = [txn EXCEPT ![t].proto = FALSE]
           /\ pc' = [pc EXCEPT ![w] = "c_unlockproto"]
           /\ NoFault /\ UNCHANGED cerr
        \/ /\ fails
           /\ Fail(w, "error") /\ NoFault
           /\ UNCHANGED <<revFile, txn>>
        \/ /\ ~fails /\ CanFault
           /\ Fail(w, "error") /\ Fault
           /\ UNCHANGED <<revFile, txn>>
  /\ UNCHANGED <<procOf, current, revpropFile, txnCurrent, locks, beingWritten, wtxn,
                 oldRev, newRevP, hasWriteLock, youngestRevCache, cookie, cleanupReg,
                 funcVars>>

\* commit_body: unlock_proto_rev, once the proto-rev file is out of the way.
CommitUnlockProto(w) ==
  /\ pc[w] = "c_unlockproto"
  /\ \E fail \in {FALSE} \cup (IF CanFault THEN {TRUE} ELSE {}) :
       LET t == wtxn[w]
           e == UnlockProtoRevErr(procOf[w], t, fail)
       IN /\ beingWritten' = UnlockProtoRevFlags(procOf[w], t, fail)
          /\ protoLock' = UnlockProtoRevLock(w, t, fail)
          /\ IF fail /\ t \in beingWritten[procOf[w]] THEN Fault ELSE NoFault
          /\ IF e = "ok"
               THEN /\ pc' = [pc EXCEPT ![w] = "c_moveprops"]
                    /\ cookie' = [cookie EXCEPT ![w] = FALSE]
                    /\ UNCHANGED cerr
               ELSE Fail(w, e) /\ UNCHANGED cookie
  /\ UNCHANGED <<disk, writeLock, fsWriteMutex, wtxn, oldRev, newRevP, hasWriteLock,
                 youngestRevCache, cleanupReg, funcVars>>

\* commit_body: stamp svn:date into the props file, then "Move the
\* revprops file into place."
CommitMoveProps(w) ==
  /\ pc[w] = "c_moveprops"
  /\ LET t == wtxn[w]
         r == RevpropsFilenameRev(w)
         fails == MoveIntoPlaceFails(txn[t].props, RevpropFileExists(r))
     IN \/ /\ ~fails
           /\ revpropFile' = [revpropFile EXCEPT ![r] = t]
           /\ txn' = [txn EXCEPT ![t].props = FALSE]
           /\ pc' = [pc EXCEPT ![w] = "c_current"]
           /\ NoFault /\ UNCHANGED cerr
        \/ /\ fails
           /\ Fail(w, "error") /\ NoFault
           /\ UNCHANGED <<revpropFile, txn>>
        \/ /\ ~fails /\ CanFault
           /\ Fail(w, "error") /\ Fault
           /\ UNCHANGED <<revpropFile, txn>>
  /\ UNCHANGED <<procOf, current, revFile, txnCurrent, locks, beingWritten, wtxn,
                 oldRev, newRevP, hasWriteLock, youngestRevCache, cookie, cleanupReg,
                 funcVars>>

\* commit_body: verify_as_revision_before_current_plus_plus (a no-op in
\* release builds), write_final_current, *new_rev_p and the cache.
CommitWriteCurrent(w) ==
  /\ pc[w] = "c_current"
  /\ \/ /\ current' = FinalCurrent(w)
        /\ newRevP' = [newRevP EXCEPT ![w] = ReportedRev(w)]
        /\ youngestRevCache' = [youngestRevCache EXCEPT ![w] = NewRev(w)]
        /\ pc' = [pc EXCEPT ![w] = "c_purge"]
        /\ NoFault /\ UNCHANGED cerr
     \/ /\ CanFault
        /\ Fail(w, "error") /\ Fault
        /\ UNCHANGED <<current, newRevP, youngestRevCache>>
  /\ UNCHANGED <<procOf, revFile, revpropFile, txnCurrent, txn, locks, beingWritten,
                 wtxn, oldRev, hasWriteLock, cookie, cleanupReg, funcVars>>

\* commit_body: "Remove this transaction directory."
CommitPurge(w) ==
  /\ pc[w] = "c_purge"
  /\ \E failAt \in PurgeFailPoints :
       LET t == wtxn[w] IN
       /\ beingWritten' = FreeSharedTxn(procOf[w], t)
       /\ txn' = PurgeTxnFiles(t, failAt)
       /\ protoLock' = PurgeTxnLock(t, failAt)
       /\ IF failAt = "none" THEN NoFault ELSE Fault
       /\ Fail(w, PurgeErr(t, failAt))
  /\ UNCHANGED <<procOf, current, revFile, revpropFile, txnCurrent, writeLock,
                 fsWriteMutex, wtxn, oldRev, newRevP, hasWriteLock, youngestRevCache,
                 cookie, cleanupReg, funcVars>>

\* with_some_lock_file: svn_pool_destroy(subpool) runs reset_lock_flag and
\* closes the handles opened in the subpool (the lock file, and the
\* proto-rev lock file if the body still held it); the mutex is unlocked.
\* svn_fs_fs__commit returns the body's error, if any.
CommitUnlock(w) ==
  /\ pc[w] = "c_unlock"
  /\ writeLock' = NoW
  /\ hasWriteLock' = [hasWriteLock EXCEPT ![w] = FALSE]
  /\ fsWriteMutex' = [fsWriteMutex EXCEPT ![procOf[w]] = NoW]
  /\ protoLock' = IF cookie[w] /\ protoLock[wtxn[w]] = w
                    THEN [protoLock EXCEPT ![wtxn[w]] = NoW]
                    ELSE protoLock
  /\ cookie' = [cookie EXCEPT ![w] = FALSE]
  /\ IF cerr[w] = "ok"
       THEN /\ pc' = [pc EXCEPT ![w] = "c_repcache"]
            /\ UNCHANGED <<wtxn, frame>>
       ELSE Return(w)
  /\ UNCHANGED <<disk, beingWritten, youngestRevCache, cleanupReg, faults, funcVars>>

\* A write_final_rev that gives the representations the revision after the
\* new one.
CachedRevisionAfter(w) == NewRev(w) + 1

\* write_final_rev: the representations pushed to reps_to_cache are those
\* with ->revision == rev, the new revision.
CachedRevision(w) == NewRev(w)

\* write_reps_to_cache: svn_fs_fs__set_rep_reference(fs, rep, FALSE) for
\* each representation; a row whose SHA-1 the index holds stays as it is.
WriteRepsToCache(db, reps_to_cache, rev) ==
  db \cup {[sha1 |-> s, revision |-> rev] :
             s \in {c \in reps_to_cache : \A e \in db : e.sha1 # c}}

\* svn_fs_fs__commit: svn_fs_fs__open_rep_cache and write_reps_to_cache in
\* one sqlite transaction, after the write lock was given back; an error
\* rolls the sqlite transaction back.
CommitRepCache(w) ==
  /\ pc[w] = "c_repcache"
  /\ \/ /\ NoFault
        /\ \E reps_to_cache \in SUBSET RepSha1s :
             repCacheDb' = WriteRepsToCache(repCacheDb, reps_to_cache, CachedRevision(w))
     \/ /\ CanFault /\ Fault
        /\ UNCHANGED repCacheDb
  /\ Return(w)
  /\ UNCHANGED <<disk, locks, beingWritten, hasWriteLock, youngestRevCache, cookie,
                 cleanupReg, restVars>>

\* ---- reading ----

\* An ensure_revision_exists that accepts the revision after the youngest.
RevisionAcceptedOneAbove(rev, cache, cur) ==
  /\ rev >= 0
  /\ (rev <= cache \/ rev <= cur + 1)

\* ensure_revision_exists: is REV accepted, given the cached and the
\* on-disk youngest revision?
RevisionAccepted(rev, cache, cur) ==
  /\ rev >= 0
  /\ (rev <= cache \/ rev <= cur)

\* ensure_revision_exists: the cache after the call.
CacheAfterCheck(rev, cache, cur) ==
  IF rev >= 0 /\ rev > cache THEN cur ELSE cache

\* svn_fs_fs__revision_exists: the call re-reads 'current' into the cache
\* when REV is above the cached value; the read may fail.
RevisionExists(w, rev) ==
  /\ pc[w] = "idle"
  /\ LET c == youngestRevCache[w] IN
     \/ /\ youngestRevCache' = [youngestRevCache EXCEPT ![w] = CacheAfterCheck(rev, c, GetYoungest)]
        /\ NoFault
     \/ /\ rev >= 0 /\ rev > c /\ CanFault
        /\ Fault
        /\ UNCHANGED youngestRevCache
  /\ UNCHANGED <<disk, locks, beingWritten, pc, wtxn, frame, hasWriteLock, cookie,
                 cleanupReg, funcVars>>

\* ---- process death ----

\* The process dies: its threads, handles, flags and mutexes are gone and
\* the operating system drops its file locks; the disk stays as it is.
Crash(p) ==
  /\ CanFault /\ Fault
  /\ \E w \in Workers : procOf[w] = p /\ pc[w] \notin {"idle", "dead"}
  /\ pc' = [w \in Workers |-> IF procOf[w] = p THEN "dead" ELSE pc[w]]
  /\ wtxn' = [w \in Workers |-> IF procOf[w] = p THEN NoTxn ELSE wtxn[w]]
  /\ oldRev' = [w \in Workers |-> IF procOf[w] = p THEN 0 ELSE oldRev[w]]
  /\ cerr' = [w \in Workers |-> IF procOf[w] = p THEN "ok" ELSE cerr[w]]
  /\ newRevP' = [w \in Workers |-> IF procOf[w] = p THEN SVN_INVALID_REVNUM ELSE newRevP[w]]
  /\ hasWriteLock' = [w \in Workers |-> IF procOf[w] = p THEN FALSE ELSE hasWriteLock[w]]
  /\ youngestRevCache' = [w \in Workers |-> IF procOf[w] = p THEN 0
                                            ELSE youngestRevCache[w]]
  /\ cookie' = [w \in Workers |-> IF procOf[w] = p THEN FALSE ELSE cookie[w]]
  /\ cleanupReg' = [w \in Workers |-> IF procOf[w] = p THEN FALSE ELSE cleanupReg[w]]
  /\ writeLock' = IF writeLock # NoW /\ procOf[writeLock] = p THEN NoW ELSE writeLock
  /\ fsWriteMutex' = [fsWriteMutex EXCEPT ![p] = NoW]
  /\ protoLock' = [t \in Txns |-> IF protoLock[t] # NoW /\ procOf[protoLock[t]] = p
                                    THEN NoW ELSE protoLock[t]]
  /\ beingWritten' = [beingWritten EXCEPT ![p] = {}]
  /\ UNCHANGED <<disk, funcVars>>

\* The process is started again: svn_fs_fs__open gives each thread a fresh
\* handle and reads 'current' into its youngest_rev_cache.
Restart(p) ==
  /\ \E w \in Workers : procOf[w] = p /\ pc[w] = "dead"
  /\ pc' = [w \in Workers |-> IF procOf[w] = p THEN "idle" ELSE pc[w]]
  /\ youngestRevCache' = [w \in Workers |-> IF procOf[w] = p THEN GetYoungest
                                            ELSE youngestRevCache[w]]
  /\ UNCHANGED <<disk, locks, beingWritten, wtxn, frame, hasWriteLock, cookie,
                 cleanupReg, faults, funcVars>>

Next ==
  \/ \E w \in Workers :
       \/ BeginTxn(w)
       \/ \E t \in Txns : WriteOpen(w, t)
       \/ \E t \in Txns : WriteOpenFail(w, t)
       \/ WriteClose(w)
       \/ \E early \in BOOLEAN : WriteCloseFail(w, early)
       \/ PoolDestroy(w)
       \/ \E t \in Txns : AbortTxn(w, t)
       \/ \E t \in Txns : CommitBegin(w, t)
       \/ CommitFileLock(w)
       \/ CommitRefreshFail(w)
       \/ ReleaseLeakedWriteLock(w)
       \/ CommitStart(w)
       \/ CommitMoveRev(w)
       \/ CommitUnlockProto(w)
       \/ CommitMoveProps(w)
       \/ CommitWriteCurrent(w)
       \/ CommitPurge(w)
       \/ CommitUnlock(w)
       \/ CommitRepCache(w)
       \/ \E rev \in {SVN_INVALID_REVNUM, current, current + 1} : RevisionExists(w, rev)
  \/ \E p \in Procs : Crash(p)
  \/ \E p \in Procs : Restart(p)

Spec == Init /\ [][Next]_vars

\* ---- deltification: choose_delta_base along one file's line of history ----

\* The file is added in revision 1 and changed in every revision after it,
\* so its node-revision with predecessor count c is nodeRevs[c + 1], with
\* id revision c + 1.  data_rep is named by the revision the
\* representation was written in; reps[r] is what revision r holds for the
\* file: "delta" against the representation of revision 'base',
\* "self-delta" against the empty stream, or "none".

\* *rep = NULL: no base, the delta is taken against the empty stream.
NoRep == 0

RECURSIVE BitAnd(_, _)
\* a & b on non-negative ints
BitAnd(a, b) ==
  IF a = 0 \/ b = 0 THEN 0
  ELSE (a % 2) * (b % 2) + 2 * BitAnd(a \div 2, b \div 2)

\* A choose_delta_base that counts back to the predecessor every time.
SkipDeltaCountPredecessor(pcount) == pcount - 1

\* choose_delta_base: "Flip the rightmost '1' bit of the predecessor count"
SkipDeltaCount(pcount) == BitAnd(pcount, pcount - 1)

\* A choose_delta_base that takes the linear tail up to and including the
\* configured length.
LinearTailInclusive(walk, maxLinear) == walk <= maxLinear

\* choose_delta_base: if (walk < (int)ffd->max_linear_deltification)
LinearTail(walk, maxLinear) == walk < maxLinear

\* A choose_delta_base whose linear tail stays on the node-revision itself.
LinearCountSelf(pcount) == pcount

\* choose_delta_base: count = noderev->predecessor_count - 1
LinearCount(pcount) == pcount - 1

\* choose_delta_base: the index, counting from the oldest end, of the
\* node-revision whose representation is taken for the base.
DeltaBaseCount(pcount, maxLinear) ==
  LET count == SkipDeltaCount(pcount)
      walk == pcount - count
  IN IF LinearTail(walk, maxLinear) THEN LinearCount(pcount) ELSE count

\* The node-revision a transaction works on: a copy of the youngest
\* node-revision of the file under a transaction id (whose revision is
\* SVN_INVALID_REVNUM), put at the young end of the line.
TxnLine ==
  Append(nodeRevs,
         [rev |-> SVN_INVALID_REVNUM,
          repRev |-> IF nodeRevs = <<>> THEN NoRep ELSE nodeRevs[Len(nodeRevs)].repRev])

\* choose_delta_base: the walk back from the node-revision to the one with
\* index COUNT meets a node-revision committed later than its data_rep.
MaybeSharedRep(line, count, pcount) ==
  \E c \in count..(pcount - 1) :
    line[c + 1].repRev # NoRep /\ line[c + 1].rev > line[c + 1].repRev

RECURSIVE RepChainLength(_)
\* svn_fs_fs__rep_chain_length: the representations on the delta chain
\* that starts at the one written in revision R.
RepChainLength(r) ==
  IF reps[r].type = "delta" THEN 1 + RepChainLength(reps[r].base) ELSE 1

\* A choose_delta_base that lets the chain grow one longer.
ChainLimitExceeded(chainLength, maxLinear) == chainLength > 2 * maxLinear + 2

\* choose_delta_base: if (chain_length >= 2 * (int)ffd->max_linear_deltification + 2)
ChainLimit(chainLength, maxLinear) == chainLength >= 2 * maxLinear + 2

\* A choose_delta_base that walks on past the limit.
WalkLimitIgnored(walk, maxWalk) == FALSE

\* choose_delta_base: if (walk > (int)ffd->max_deltification_walk)
WalkLimit(walk, maxWalk) == walk > maxWalk

\* choose_delta_base: the times the loop over the predecessors runs, each
\* reading one node-revision.
PredecessorsWalked(pcount, maxLinear, maxWalk) ==
  IF pcount = 0 \/ WalkLimit(pcount - SkipDeltaCount(pcount), maxWalk) THEN 0
  ELSE pcount - DeltaBaseCount(pcount, maxLinear)

\* choose_delta_base for file contents: the revision of the representation
\* to deltify against, or NoRep.
ChooseDeltaBase(line, pcount, maxLinear, maxWalk) ==
  IF pcount = 0 THEN NoRep
  ELSE LET count == DeltaBaseCount(pcount, maxLinear)
           walk == pcount - SkipDeltaCount(pcount)
           rep == line[count + 1].repRev
       IN IF WalkLimit(walk, maxWalk) THEN NoRep
          ELSE IF /\ rep # NoRep
                  /\ MaybeSharedRep(line, count, pcount)
                  /\ ChainLimit(RepChainLength(rep), maxLinear)
            THEN NoRep
          ELSE rep

\* The node-revisions that did not get a representation of their own.
SharedCount == Cardinality({r \in 1..Len(reps) : reps[r].type = "none"})

\* rep_write_get_baton ... rep_write_contents_close finding no shared
\* representation, and the commit of the transaction: the new contents are
\* written as a delta against the chosen base and the node-revision points
\* at them.
DeltaSetContents ==
  /\ Len(nodeRevs) < MaxHistory
  /\ LET pcount == Len(nodeRevs)
         newRev == pcount + 1
         base == ChooseDeltaBase(TxnLine, pcount, maxLinearDeltification,
                                 maxDeltificationWalk)
     IN /\ reps' = Append(reps, IF base = NoRep
                                  THEN [type |-> "self-delta", base |-> NoRep]
                                  ELSE [type |-> "delta", base |-> base])
        /\ nodeRevs' = Append(nodeRevs, [rev |-> newRev, repRev |-> newRev])
  /\ UNCHANGED <<deltaFrame, maxLinearDeltification, maxDeltificationWalk>>

\* A change that leaves the node-revision with an existing representation:
\* rep_write_contents_close with get_shared_rep finding the contents in the
\* rep-cache (what was written is truncated away), or a change of the
\* properties alone, which keeps the data_rep of the predecessor.
DeltaShareRep ==
  /\ Len(nodeRevs) < MaxHistory
  /\ SharedCount < MaxShared
  /\ \E old \in 1..Len(reps) :
       /\ reps[old].type # "none"
       /\ nodeRevs' = Append(nodeRevs, [rev |-> Len(nodeRevs) + 1, repRev |-> old])
  /\ reps' = Append(reps, [type |-> "none", base |-> NoRep])
  /\ UNCHANGED <<deltaFrame, maxLinearDeltification, maxDeltificationWalk>>

\* The file has no history; fsfs.conf holds the defaults or smaller values
\* (with max-linear-deltification = 1 the chain-length limit is met within
\* MaxHistory changes, with max-deltification-walk = 4 the walk limit).
DeltaInit ==
  /\ FsInit /\ ShareNone /\ FoldNone /\ HotNone /\ UpNone
     /\ IdNone /\ LifeNone /\ PropNone /\ CacheNone /\ LookupNone /\ IndexNone /\ FinalNone
  /\ maxLinearDeltification \in {1, 2, SVN_FS_FS_MAX_LINEAR_DELTIFICATION}
  /\ maxDeltificationWalk \in {4, SVN_FS_FS_MAX_DELTIFICATION_WALK}
  /\ nodeRevs = <<>>
  /\ reps = <<>>

DeltaNext == DeltaSetContents \/ DeltaShareRep

DeltaSpec == DeltaInit /\ [][DeltaNext]_vars

\* ---- rep-sharing: the file contents written in one transaction ----

\* An offset in the proto-rev file is counted in representations: the
\* representation at offset o is protoRev[o + 1], and truncating the file
\* to offset o leaves its first o representations.

\* The representation the rep-cache holds for the contents C, written in
\* revision 1.
CachedRep(c) == [revision |-> ShareNewRev - 1, offset |-> 0, sha1 |-> c]

\* A get_shared_rep that consults the rep-cache alone.
GetSharedRepCacheOnly(c, dbFails) ==
  IF ~repSharingAllowed THEN NoDataRep
  ELSE IF c \in repCache /\ ~dbFails THEN CachedRep(c)
  ELSE NoDataRep

\* get_shared_rep with REPS_HASH NULL, for the contents C written in the
\* transaction: nothing if rep-sharing is off; else the rep-cache's
\* representation (a failing lookup is warned about and counts as a miss);
\* else the one in the transaction's sidecar file for that SHA-1.
GetSharedRep(c, dbFails) ==
  IF ~repSharingAllowed THEN NoDataRep
  ELSE IF c \in repCache /\ ~dbFails THEN CachedRep(c)
  ELSE sha1Files[c]

\* svn_io_file_trunc(b->file, b->rep_offset)
TruncProtoRev(offset) == SubSeq(protoRev, 1, offset)

\* rep_write_get_baton and rep_write_contents: the stream for the contents
\* of F is opened at the end of the proto-rev file and the header and the
\* delta of the contents C are written.
ShareWriteOpen(f, c) ==
  /\ baton = NoBaton
  /\ shareRev = SVN_INVALID_REVNUM
  /\ Len(protoRev) < MaxSegments
  /\ baton' = [file |-> f, sha1 |-> c, repOffset |-> Len(protoRev)]
  /\ protoRev' = Append(protoRev, [sha1 |-> c, ended |-> FALSE])
  /\ UNCHANGED <<shareFrame, repSharingAllowed, repCache, sha1Files, dataRep, shareRev>>

\* rep_write_contents_close: the proto-rev file it leaves.
CloseProtoRev(old) ==
  IF old # NoDataRep
    THEN TruncProtoRev(baton.repOffset)
    ELSE [protoRev EXCEPT ![baton.repOffset + 1].ended = TRUE]

\* rep_write_contents_close: b->noderev->data_rep
CloseDataRep(old) ==
  IF old # NoDataRep
    THEN old
    ELSE [revision |-> SVN_INVALID_REVNUM, offset |-> baton.repOffset, sha1 |-> baton.sha1]

\* rep_write_contents_close, every step succeeding: the node-revision is
\* written with the shared or the new representation, and
\* store_sha1_rep_mapping writes the sidecar file of a new one.
ShareWriteClose(dbFails) ==
  /\ baton # NoBaton
  /\ LET old == GetSharedRep(baton.sha1, dbFails) IN
     /\ protoRev' = CloseProtoRev(old)
     /\ dataRep' = [dataRep EXCEPT ![baton.file] = CloseDataRep(old)]
     /\ sha1Files' = IF old = NoDataRep /\ repSharingAllowed
                       THEN [sha1Files EXCEPT ![baton.sha1] = CloseDataRep(old)]
                       ELSE sha1Files
  /\ baton' = NoBaton
  /\ UNCHANGED <<shareFrame, repSharingAllowed, repCache, shareRev>>

\* rep_write_contents_close failing at svn_fs_fs__put_node_revision: the
\* proto-rev file is truncated or ended, the cleanup is gone, and neither
\* the node-revision nor a sidecar file is written.
ShareWriteCloseFail(dbFails) ==
  /\ baton # NoBaton
  /\ protoRev' = CloseProtoRev(GetSharedRep(baton.sha1, dbFails))
  /\ baton' = NoBaton
  /\ UNCHANGED <<shareFrame, repSharingAllowed, repCache, sha1Files, dataRep, shareRev>>

\* rep_write_cleanup: the stream is given up before its close handler got
\* as far as apr_pool_cleanup_kill; what it wrote is truncated away.
ShareWriteCleanup ==
  /\ baton # NoBaton
  /\ protoRev' = TruncProtoRev(baton.repOffset)
  /\ baton' = NoBaton
  /\ UNCHANGED <<shareFrame, repSharingAllowed, repCache, sha1Files, dataRep, shareRev>>

\* write_final_rev: "Truncated protorev file detected"
TruncatedProtorev ==
  \E f \in Files :
    /\ dataRep[f] # NoDataRep /\ dataRep[f].revision = SVN_INVALID_REVNUM
    /\ dataRep[f].offset + 1 > Len(protoRev)

\* write_final_rev over the files of the transaction: a data_rep still in
\* the transaction gets the new revision and keeps its offset.
ShareCommit ==
  /\ baton = NoBaton
  /\ shareRev = SVN_INVALID_REVNUM
  /\ ~TruncatedProtorev
  /\ dataRep' = [f \in Files |->
                   IF dataRep[f] # NoDataRep /\ dataRep[f].revision = SVN_INVALID_REVNUM
                     THEN [dataRep[f] EXCEPT !.revision = ShareNewRev]
                     ELSE dataRep[f]]
  /\ shareRev' = ShareNewRev
  /\ UNCHANGED <<shareFrame, repSharingAllowed, repCache, protoRev, sha1Files, baton>>

\* A new transaction on revision 1; rep-sharing is on or off, and the
\* rep-cache is empty or holds the contents "same".
ShareInit ==
  /\ FsInit /\ DeltaNone /\ FoldNone /\ HotNone /\ UpNone
     /\ IdNone /\ LifeNone /\ PropNone /\ CacheNone /\ LookupNone /\ IndexNone /\ FinalNone
  /\ repSharingAllowed \in BOOLEAN
  /\ repCache \in {{}, {"same"}}
  /\ protoRev = <<>>
  /\ sha1Files = [c \in Sha1s |-> NoDataRep]
  /\ dataRep = [f \in Files |-> NoDataRep]
  /\ baton = NoBaton
  /\ shareRev = SVN_INVALID_REVNUM

ShareNext ==
  \/ \E f \in Files : \E c \in Sha1s : ShareWriteOpen(f, c)
  \/ \E dbFails \in BOOLEAN : ShareWriteClose(dbFails)
  \/ \E dbFails \in BOOLEAN : ShareWriteCloseFail(dbFails)
  \/ ShareWriteCleanup
  \/ ShareCommit

ShareSpec == ShareInit /\ [][ShareNext]_vars

\* ---- folding the change records of a changes list ----

\* The records the tree layer writes: a modify of the text or of the
\* properties, an add or a replace with or without a copy source, a delete
\* and a reset, each with the id of the node-revision.  node_kind is copied
\* through and the copyfrom cache follows the hash; neither is modelled.
CopySources == {NoCopyfrom, [rev |-> 1, path |-> "/s"]}

ChangeRecords ==
  {[path |-> p, kind |-> "modify", id |-> i, textMod |-> t, propMod |-> ~t,
    copyfrom |-> NoCopyfrom] : p \in Paths, i \in NodeRevIds, t \in BOOLEAN}
  \cup
  {[path |-> p, kind |-> k, id |-> i, textMod |-> FALSE, propMod |-> FALSE,
    copyfrom |-> c] :
     p \in Paths, k \in {"add", "replace"}, i \in NodeRevIds, c \in CopySources}
  \cup
  {[path |-> p, kind |-> k, id |-> i, textMod |-> FALSE, propMod |-> FALSE,
    copyfrom |-> NoCopyfrom] : p \in Paths, k \in {"delete", "reset"}, i \in NodeRevIds}

\* "Missing required node revision ID"
MissingId(change) == change.id = NullId /\ change.kind # "reset"

\* "Invalid change ordering: new node revision ID without delete"
NewIdWithoutDelete(old, change) ==
  change.id # NullId /\ old.id # change.id /\ old.kind # "delete"

\* "Invalid change ordering: non-add change on deleted path"
NonAddOnDeleted(old, change) ==
  old.kind = "delete" /\ change.kind \notin {"replace", "reset", "add"}

\* An add that is let through whatever it follows.
AddAnywhere(old, change) == FALSE

\* "Invalid change ordering: add change on preexisting path"
AddOnPreexisting(old, change) ==
  change.kind = "add" /\ old.kind # "delete" /\ old.kind # "reset"

\* A deletion that overrules every previous change, an add included.
FoldDeleteOverrules(old, change) ==
  [old EXCEPT !.kind = "delete", !.textMod = change.textMod,
              !.propMod = change.propMod, !.copyfrom = NoCopyfrom]

\* case svn_fs_path_change_delete
FoldDelete(old, change) ==
  IF old.kind = "add"
    THEN NoChange
    ELSE [old EXCEPT !.kind = "delete", !.textMod = change.textMod,
                     !.propMod = change.propMod, !.copyfrom = NoCopyfrom]

\* An add after a delete that keeps the kind of the record.
FoldReplaceKeepsKind(old, change) ==
  [kind |-> change.kind, id |-> change.id, textMod |-> change.textMod,
   propMod |-> change.propMod, copyfrom |-> change.copyfrom]

\* case svn_fs_path_change_add, svn_fs_path_change_replace
FoldReplace(old, change) ==
  [kind |-> "replace", id |-> change.id, textMod |-> change.textMod,
   propMod |-> change.propMod, copyfrom |-> change.copyfrom]

\* A modify that sets the flags to those of the record.
FoldModifyAssigns(old, change) ==
  [old EXCEPT !.textMod = change.textMod, !.propMod = change.propMod]

\* case svn_fs_path_change_modify, default
FoldModify(old, change) ==
  [old EXCEPT !.textMod = IF change.textMod THEN TRUE ELSE old.textMod,
              !.propMod = IF change.propMod THEN TRUE ELSE old.propMod]

\* the change is new to the hash
NewChange(change) ==
  [kind |-> change.kind, id |-> change.id, textMod |-> change.textMod,
   propMod |-> change.propMod, copyfrom |-> change.copyfrom]

\* fold_change for a path whose entry in the hash is OLD: whether it
\* fails, and the entry it leaves.
FoldChange(old, change) ==
  IF old = NoChange
    THEN [err |-> FALSE, change |-> NewChange(change)]
  ELSE IF \/ MissingId(change)
          \/ NewIdWithoutDelete(old, change)
          \/ NonAddOnDeleted(old, change)
          \/ AddOnPreexisting(old, change)
    THEN [err |-> TRUE, change |-> old]
  ELSE [err |-> FALSE,
        change |-> CASE change.kind = "reset" -> NoChange
                     [] change.kind = "delete" -> FoldDelete(old, change)
                     [] change.kind \in {"add", "replace"} -> FoldReplace(old, change)
                     [] OTHER -> FoldModify(old, change)]

\* min_child_len of process_changes
MinChildLen(path) ==
  IF Len(path) = 0 THEN 1
  ELSE IF path[Len(path)] = "/" THEN Len(path) + 1
  ELSE Len(path) + 2

\* svn_dirent_is_child, for canonical paths other than the root: CHILD
\* starts with PARENT and a separator.
SvnDirentIsChild(parent, child) ==
  /\ Len(child) >= Len(parent) + 1
  /\ SubSeq(child, 1, Len(parent) + 1) = Append(parent, "/")

\* Children are blown away by a deletion alone.
BlowsAwayChildrenOnDelete(change) == change.kind = "delete" /\ ~prefolded

\* process_changes: whether the changes on the children of the path of
\* CHANGE are blown away.
BlowsAwayChildren(change) == change.kind \in {"delete", "replace"} /\ ~prefolded

\* process_changes: the hash after its inner loop.
WithoutChildren(paths, change) ==
  [p \in Paths |->
     IF Len(p) >= MinChildLen(change.path) /\ SvnDirentIsChild(change.path, p)
       THEN NoChange
       ELSE paths[p]]

\* One turn of the loop of process_changes: the next record of the list is
\* folded into the hash; an error of fold_change ends the loop.
FoldRecord(change) ==
  /\ foldErr = "none" /\ ~changedPathsP.set
  /\ folded < MaxChanges
  /\ LET r == FoldChange(changedPaths[change.path], change)
         merged == [changedPaths EXCEPT ![change.path] = r.change]
     IN  /\ foldErr' = IF r.err THEN "corrupt" ELSE "none"
         /\ changedPaths' = IF r.err THEN changedPaths
                            ELSE IF BlowsAwayChildren(change)
                              THEN WithoutChildren(merged, change)
                            ELSE merged
  /\ prevPaths' = changedPaths
  /\ lastChange' = change
  /\ folded' = folded + 1
  /\ UNCHANGED <<foldFrame, prefolded, changedPathsP>>

\* svn_fs_fs__txn_changes_fetch, svn_fs_fs__paths_changed: the list is at
\* its end and the hash is handed to the caller.
FoldReturn ==
  /\ foldErr = "none" /\ ~changedPathsP.set
  /\ changedPathsP' = [set |-> TRUE, paths |-> changedPaths]
  /\ UNCHANGED <<foldFrame, prefolded, changedPaths, prevPaths, lastChange, foldErr, folded>>

\* The changes list of a transaction (svn_fs_fs__txn_changes_fetch) or of a
\* revision (svn_fs_fs__paths_changed), nothing read.
FoldInit ==
  /\ FsInit /\ DeltaNone /\ ShareNone /\ HotNone /\ UpNone
     /\ IdNone /\ LifeNone /\ PropNone /\ CacheNone /\ LookupNone /\ IndexNone /\ FinalNone
  /\ prefolded \in BOOLEAN
  /\ changedPaths = [p \in Paths |-> NoChange]
  /\ prevPaths = [p \in Paths |-> NoChange]
  /\ lastChange = NoRecord
  /\ foldErr = "none"
  /\ folded = 0
  /\ changedPathsP = NoList

FoldNext ==
  \/ \E change \in ChangeRecords : FoldRecord(change)
  \/ FoldReturn

FoldSpec == FoldInit /\ [][FoldNext]_vars

\* ---- hotcopy: svn_fs_fs__hotcopy from SRC into DST ----

\* SRC is of the newest format (packed revisions, packed revprops) and is
\* sharded.  Its revisions 0..current are in packs below min-unpacked-rev
\* and in revision files from there on; its revision properties likewise,
\* but for those of revision 0, which are never packed.  A commit adds a
\* revision and a pack moves one full shard, while the hotcopy runs.
SrcHasRevFile(r) == src.minUnpacked <= r /\ r <= src.current
SrcHasRevpropFile(r) == (r = 0 \/ src.minUnpacked <= r) /\ r <= src.current
SrcHasPack(shard) == (shard + 1) * MaxFilesPerDir <= src.minUnpacked

SrcCommit ==
  /\ hotResult = "running"
  /\ src.current < MaxSrcRev
  /\ src' = [src EXCEPT !.current = src.current + 1]
  /\ UNCHANGED <<hotFrame, dst, incremental, hpc, hotResult, srcFfdMinUnpackedRev, hc>>

SrcPack ==
  /\ hotResult = "running"
  /\ src.minUnpacked + MaxFilesPerDir <= src.current + 1
  /\ src' = [src EXCEPT !.minUnpacked = src.minUnpacked + MaxFilesPerDir]
  /\ UNCHANGED <<hotFrame, dst, incremental, hpc, hotResult, srcFfdMinUnpackedRev, hc>>

\* svn_fs_fs__is_packed_rev
IsPackedRev(minUnpackedRev, rev) == rev < minUnpackedRev

\* What a destination holds after a hotcopy that ended with 'current' at C
\* and min-unpacked-rev at M; STALE are the revisions whose properties
\* were changed in SRC since.
EarlierCopy(c, m, uuid, stale) ==
  [format |-> TRUE, uuid |-> uuid, current |-> c, minUnpacked |-> m,
   revShards |-> {Shard(r) : r \in m..c}, revFiles |-> m..c,
   packedShards |-> {Shard(r) : r \in 0..(m - 1)},
   revpropShards |-> {Shard(r) : r \in (m..c) \cup {0}},
   revpropFiles |-> (m..c) \cup {0},
   packedRevprops |-> {Shard(r) : r \in 0..(m - 1)},
   staleRevprops |-> stale]

\* hotcopy_create_empty_dest: "no revisions, not even revision zero"
CreatedEmptyDest ==
  [EmptyDst EXCEPT !.uuid = "src", !.current = 0, !.minUnpacked = 0,
                   !.revShards = {0}, !.revpropShards = {0}]

\* hotcopy_copy_shard_file: the shard directory is made for the first
\* revision of a shard, and the file is copied if SRC has it and DST has
\* the directory; otherwise the copy fails with ENOENT.
CopyShardFile(files, shards, srcHas, rev) ==
  LET made == IF rev % MaxFilesPerDir = 0 THEN shards \cup {Shard(rev)} ELSE shards
      ok == srcHas /\ Shard(rev) \in made
  IN  [err |-> ~ok, shards |-> made, files |-> IF ok THEN files \cup {rev} ELSE files]

\* hotcopy_copy_packed_shard, the loop "copy unpacked revprops rev by rev":
\* the files of REV .. REV + max_files_per_dir - 1, up to the first that
\* cannot be copied.
CopyUnpackedRevprops(d, rev) ==
  LET range == rev..(rev + MaxFilesPerDir - 1)
      Ok(q) == /\ SrcHasRevpropFile(q)
               /\ Shard(q) \in d.revpropShards \/ Shard(q) * MaxFilesPerDir >= rev
      tried == {q \in range : \A p \in rev..(q - 1) : Ok(p)}
      copied == {q \in tried : Ok(q)}
  IN  [err |-> copied # range,
       dst |-> [d EXCEPT
                  !.revpropShards =
                     @ \cup {Shard(q) : q \in {t \in tried : t % MaxFilesPerDir = 0}},
                  !.revpropFiles = @ \cup copied,
                  !.staleRevprops = @ \ copied]]

\* hotcopy_copy_packed_shard, the packed revprops: those of revision 0 as
\* a file, and the pack directory.
CopyPackedRevprops(d, rev) ==
  LET zero == CopyShardFile(d.revpropFiles, d.revpropShards, SrcHasRevpropFile(0), 0)
      d0 == IF rev = 0
              THEN [d EXCEPT !.revpropFiles = zero.files, !.revpropShards = zero.shards,
                             !.staleRevprops = IF zero.err THEN @ ELSE @ \ {0}]
              ELSE d
      err == (rev = 0 /\ zero.err) \/ ~SrcHasPack(Shard(rev))
  IN  [err |-> err,
       dst |-> IF err THEN d0
               ELSE [d0 EXCEPT !.packedRevprops = @ \cup {Shard(rev)},
                               !.staleRevprops = @ \ (ShardRevs(Shard(rev)) \ {0})]]

\* hotcopy_copy_packed_shard for the shard of REV, with *dst_min_unpacked_rev
\* DSTMIN and src_ffd->min_unpacked_rev FFDMIN: the pack, its revprops,
\* and DST's min-unpacked-rev file.
HotcopyCopyPackedShard(d, dstMin, rev, ffdMin) ==
  IF ~SrcHasPack(Shard(rev)) THEN [err |-> TRUE, dst |-> d, dstMin |-> dstMin]
  ELSE
    LET d1 == [d EXCEPT !.packedShards = @ \cup {Shard(rev)}]
        p == IF ffdMin < rev + MaxFilesPerDir
               THEN CopyUnpackedRevprops(d1, rev)
               ELSE CopyPackedRevprops(d1, rev)
    IN  IF p.err THEN [err |-> TRUE, dst |-> p.dst, dstMin |-> dstMin]
        ELSE IF dstMin < rev + MaxFilesPerDir
          THEN [err |-> FALSE,
                dst |-> [p.dst EXCEPT !.minUnpacked = rev + MaxFilesPerDir],
                dstMin |-> rev + MaxFilesPerDir]
        ELSE [err |-> FALSE, dst |-> p.dst, dstMin |-> dstMin]

\* hotcopy_update_current: 'current' of DST after it
HotcopyUpdateCurrent(d, dstYoungest, newYoungest) ==
  IF dstYoungest >= newYoungest THEN d ELSE [d EXCEPT !.current = newYoungest]

\* hotcopy_update_current: *dst_youngest after it
UpdatedYoungest(dstYoungest, newYoungest) ==
  IF dstYoungest >= newYoungest THEN dstYoungest ELSE newYoungest

\* The places where the cancellation function is called with the
\* hotcopy about to do the step named.
CancelPoints == {"h_start", "h_body", "h_youngest", "h_readmin", "h_packs", "h_revs"}

HotFail == hotResult' = "error" /\ hpc' = hpc

\* svn_fs_fs__open(src_fs)
HotOpenSrc ==
  /\ hotResult = "running" /\ hpc = "h_start"
  /\ srcFfdMinUnpackedRev' = src.minUnpacked
  /\ hpc' = "h_dest"
  /\ UNCHANGED <<hotFrame, src, dst, incremental, hotResult, hc>>

\* svn_fs_fs__hotcopy: the destination is opened and checked if the
\* hotcopy is incremental and DST has a format file, and created empty
\* otherwise.
HotPrepareDest ==
  /\ hotResult = "running" /\ hpc = "h_dest"
  /\ IF incremental /\ dst.format
       THEN IF dst.uuid # "src"
              THEN HotFail /\ UNCHANGED dst
              ELSE hpc' = "h_body" /\ UNCHANGED <<dst, hotResult>>
       ELSE dst' = CreatedEmptyDest /\ hpc' = "h_body" /\ UNCHANGED hotResult
  /\ UNCHANGED <<hotFrame, src, incremental, srcFfdMinUnpackedRev, hc>>

\* hotcopy_body under DST's write lock: the config file is copied.
HotCopyConfig ==
  /\ hotResult = "running" /\ hpc = "h_body"
  /\ hpc' = "h_youngest"
  /\ UNCHANGED <<hotFrame, src, dst, incremental, hotResult, srcFfdMinUnpackedRev, hc>>

\* hotcopy_body: "Find the youngest revision in the source and destination."
HotYoungest ==
  /\ hotResult = "running" /\ hpc = "h_youngest"
  /\ LET dy == IF incremental THEN dst.current ELSE 0 IN
     /\ hc' = [hc EXCEPT !.src_youngest = src.current, !.dst_youngest = dy]
     /\ IF src.current < dy THEN HotFail ELSE hpc' = "h_readmin" /\ UNCHANGED hotResult
  /\ UNCHANGED <<hotFrame, src, dst, incremental, srcFfdMinUnpackedRev>>

\* hotcopy_body: svn_fs_fs__read_min_unpacked_rev of SRC and of DST
HotReadMinUnpacked ==
  /\ hotResult = "running" /\ hpc = "h_readmin"
  /\ hc' = [hc EXCEPT !.src_min_unpacked_rev = src.minUnpacked,
                      !.dst_min_unpacked_rev = dst.minUnpacked]
  /\ IF src.minUnpacked < dst.minUnpacked
       THEN HotFail
       ELSE hpc' = "h_copymin" /\ UNCHANGED hotResult
  /\ UNCHANGED <<hotFrame, src, dst, incremental, srcFfdMinUnpackedRev>>

\* hotcopy_body: svn_io_dir_file_copy(..., PATH_MIN_UNPACKED_REV)
HotCopyMinUnpacked ==
  /\ hotResult = "running" /\ hpc = "h_copymin"
  /\ dst' = [dst EXCEPT !.minUnpacked = src.minUnpacked]
  /\ hc' = [hc EXCEPT !.rev = 0]
  /\ hpc' = "h_packs"
  /\ UNCHANGED <<hotFrame, src, incremental, hotResult, srcFfdMinUnpackedRev>>

\* hotcopy_body, one turn of "First, copy packed shards.": the shard is
\* copied, 'current' is moved to its last revision, and the revision
\* files and the shard directory it replaces are removed.
HotCopyPack ==
  /\ hotResult = "running" /\ hpc = "h_packs"
  /\ hc.rev < hc.src_min_unpacked_rev
  /\ LET cp == HotcopyCopyPackedShard(dst, hc.dst_min_unpacked_rev, hc.rev,
                                      srcFfdMinUnpackedRev)
         last == hc.rev + MaxFilesPerDir - 1
         cur == HotcopyUpdateCurrent(cp.dst, hc.dst_youngest, last)
     IN  IF cp.err
           THEN /\ dst' = cp.dst
                /\ HotFail /\ UNCHANGED hc
           ELSE /\ dst' = [cur EXCEPT !.revFiles = @ \ ShardRevs(Shard(hc.rev)),
                                      !.revShards = @ \ {Shard(hc.rev)}]
                /\ hc' = [hc EXCEPT !.dst_min_unpacked_rev = cp.dstMin,
                                    !.dst_youngest = UpdatedYoungest(@, last),
                                    !.rev = @ + MaxFilesPerDir]
                /\ UNCHANGED <<hpc, hotResult>>
  /\ UNCHANGED <<hotFrame, src, incremental, srcFfdMinUnpackedRev>>

\* hotcopy_body: the packed shards are done.
HotPacksDone ==
  /\ hotResult = "running" /\ hpc = "h_packs"
  /\ ~(hc.rev < hc.src_min_unpacked_rev)
  /\ IF hc.rev = hc.src_min_unpacked_rev
        /\ hc.src_min_unpacked_rev = hc.dst_min_unpacked_rev
       THEN hpc' = "h_revs" /\ UNCHANGED hotResult
       ELSE HotFail
  /\ UNCHANGED <<hotFrame, src, dst, incremental, srcFfdMinUnpackedRev, hc>>

\* The turn of the loop over the unpacked revisions that follows the
\* copy of a pack: "rev = dst_min_unpacked_rev; continue;", and the
\* continue runs the rev++ of the for statement.
RevAfterPack(dstMin) == dstMin + 1

\* hotcopy_body, one turn of the loop over the unpacked revisions, up to
\* the revision file: it is copied, or, if it is gone from SRC and its
\* shard is packed there by now, the pack is copied in its place.
HotCopyRev ==
  /\ hotResult = "running" /\ hpc = "h_revs"
  /\ hc.rev <= hc.src_youngest
  /\ LET c == CopyShardFile(dst.revFiles, dst.revShards, SrcHasRevFile(hc.rev), hc.rev)
         d1 == [dst EXCEPT !.revFiles = c.files, !.revShards = c.shards]
         ffdMin == src.minUnpacked
         cp == HotcopyCopyPackedShard(d1, hc.dst_min_unpacked_rev, hc.rev, ffdMin)
     IN  IF ~c.err
           THEN /\ dst' = d1 /\ hpc' = "h_revprop"
                /\ UNCHANGED <<hotResult, srcFfdMinUnpackedRev, hc>>
         ELSE /\ srcFfdMinUnpackedRev' = ffdMin
              /\ IF IsPackedRev(ffdMin, hc.rev) /\ ~IsPackedRev(ffdMin, hc.src_youngest)
                   THEN /\ dst' = cp.dst
                        /\ IF cp.err
                             THEN HotFail /\ UNCHANGED hc
                             ELSE /\ hc' = [hc EXCEPT !.dst_min_unpacked_rev = cp.dstMin,
                                                      !.rev = RevAfterPack(cp.dstMin)]
                                  /\ UNCHANGED <<hpc, hotResult>>
                   ELSE dst' = d1 /\ HotFail /\ UNCHANGED hc
  /\ UNCHANGED <<hotFrame, src, incremental>>

\* hotcopy_body, the rest of the turn: the revprop file is copied and
\* 'current' is moved after the first revision of a shard.
HotCopyRevprop ==
  /\ hotResult = "running" /\ hpc = "h_revprop"
  /\ LET c == CopyShardFile(dst.revpropFiles, dst.revpropShards,
                            SrcHasRevpropFile(hc.rev), hc.rev)
         d1 == [dst EXCEPT !.revpropFiles = c.files, !.revpropShards = c.shards,
                           !.staleRevprops = IF c.err THEN @ ELSE @ \ {hc.rev}]
         atShard == hc.rev % MaxFilesPerDir = 0
     IN  IF c.err
           THEN dst' = d1 /\ HotFail /\ UNCHANGED hc
           ELSE /\ dst' = IF atShard
                            THEN HotcopyUpdateCurrent(d1, hc.dst_youngest, hc.rev)
                            ELSE d1
                /\ hc' = [hc EXCEPT
                            !.dst_youngest = IF atShard THEN UpdatedYoungest(@, hc.rev)
                                             ELSE @,
                            !.rev = @ + 1]
                /\ hpc' = "h_revs" /\ UNCHANGED hotResult
  /\ UNCHANGED <<hotFrame, src, incremental, srcFfdMinUnpackedRev>>

\* hotcopy_body after the loop: "All revisions were copied. Update
\* 'current'."; the locks, the caches and txn-current follow, and the
\* format file is stamped.
HotFinish ==
  /\ hotResult = "running" /\ hpc = "h_revs"
  /\ ~(hc.rev <= hc.src_youngest)
  /\ IF hc.rev = hc.src_youngest + 1
       THEN /\ dst' = [HotcopyUpdateCurrent(dst, hc.dst_youngest, hc.src_youngest)
                         EXCEPT !.format = TRUE]
            /\ hc' = [hc EXCEPT !.dst_youngest = UpdatedYoungest(@, hc.src_youngest)]
            /\ hotResult' = "ok" /\ hpc' = "h_done"
       ELSE HotFail /\ UNCHANGED <<dst, hc>>
  /\ UNCHANGED <<hotFrame, src, incremental, srcFfdMinUnpackedRev>>

\* cancel_func returns an error.
HotCancel ==
  /\ hotResult = "running" /\ hpc \in CancelPoints
  /\ hotResult' = "cancelled"
  /\ UNCHANGED <<hotFrame, src, dst, incremental, hpc, srcFfdMinUnpackedRev, hc>>

\* The minimum unpacked revisions a repository with youngest revision C
\* can have.
MinUnpackedRevs(c) == {m \in 0..(c + 1) : m % MaxFilesPerDir = 0}

\* A hotcopy is about to start: SRC has some revisions, some of them
\* packed; DST is empty, or, for an incremental hotcopy, may be what an
\* earlier hotcopy left, of SRC or of another repository.
HotInit ==
  /\ FsInit /\ DeltaNone /\ ShareNone /\ FoldNone /\ UpNone
     /\ IdNone /\ LifeNone /\ PropNone /\ CacheNone /\ LookupNone /\ IndexNone /\ FinalNone
  /\ \E c \in HotRevs : \E m \in MinUnpackedRevs(c) : src = [current |-> c, minUnpacked |-> m]
  /\ incremental \in BOOLEAN
  /\ \/ dst = EmptyDst
     \/ /\ incremental
        /\ \E c \in HotRevs : \E m \in MinUnpackedRevs(c) :
             \E uuid \in {"src", "other"} : \E stale \in {{}, {0}, {c}} :
               dst = EarlierCopy(c, m, uuid, stale)
  /\ hpc = "h_start"
  /\ hotResult = "running"
  /\ srcFfdMinUnpackedRev = 0
  /\ hc = NoLocals

HotNext ==
  \/ SrcCommit
  \/ SrcPack
  \/ HotOpenSrc
  \/ HotPrepareDest
  \/ HotCopyConfig
  \/ HotYoungest
  \/ HotReadMinUnpacked
  \/ HotCopyMinUnpacked
  \/ HotCopyPack
  \/ HotPacksDone
  \/ HotCopyRev
  \/ HotCopyRevprop
  \/ HotFinish
  \/ HotCancel

HotSpec == HotInit /\ [][HotNext]_vars

\* Revision REV of a destination is where its min-unpacked-rev says.
RevPresent(d, rev) ==
  IF rev < d.minUnpacked THEN Shard(rev) \in d.packedShards ELSE rev \in d.revFiles

\* The revision properties of REV likewise; those of revision 0 are a
\* file always.
RevpropPresent(d, rev) ==
  IF rev # 0 /\ rev < d.minUnpacked
    THEN Shard(rev) \in d.packedRevprops
    ELSE rev \in d.revpropFiles

\* The revisions up to 'current' that a reader of D does not find
MissingRevs(d) == {r \in 0..d.current : ~RevPresent(d, r) \/ ~RevpropPresent(d, r)}

\* ---- upgrade: svn_fs_fs__upgrade ----

\* The files and the directory that upgrade_body creates
Artifacts ==
  {"config", "txn-current", "txn-current-lock", "txn-protorevs", "min-unpacked-rev"}

\* Those a store of format FORMAT has had since it was created or upgraded
ArtifactsOf(format) ==
  (IF format >= SVN_FS_FS__MIN_TXN_CURRENT_FORMAT
     THEN {"txn-current", "txn-current-lock"} ELSE {})
  \cup (IF format >= SVN_FS_FS__MIN_PROTOREVS_DIR_FORMAT THEN {"txn-protorevs"} ELSE {})
  \cup (IF format >= SVN_FS_FS__MIN_PACKED_FORMAT THEN {"min-unpacked-rev"} ELSE {})

\* check_format
CheckFormat(format) ==
  /\ format # SVN_FS_FS__PACKED_REVPROP_SQLITE_DEV_FORMAT
  /\ 1 <= format /\ format <= SVN_FS_FS__FORMAT_NUMBER

\* upgrade_body: "the file system supports revision packing but not revprop
\* packing *and* the FS has been sharded"; this is needs_revprop_shard_cleanup.
NeedsRevpropPack(format, sharded) ==
  /\ format >= SVN_FS_FS__MIN_PACKED_FORMAT
  /\ format < SVN_FS_FS__MIN_PACKED_REVPROP_FORMAT
  /\ sharded

\* The steps of upgrade_body that create the files and the directory,
\* in the order of the code.
ArtifactSteps ==
  <<"u_config", "u_txn_current", "u_txn_current_lock", "u_protorevs", "u_min_unpacked">>

\* The steps of upgrade_body about the revision properties and the
\* format file, the bump before the packing.
RevpropStepsBumpFirst == <<"u_format", "u_pack_revprops", "u_notify", "u_cleanup">>

\* The steps of upgrade_body about the revision properties and the
\* format file, in the order of the code.
RevpropSteps == <<"u_pack_revprops", "u_format", "u_notify", "u_cleanup">>

UpgradeSteps == <<"u_start">> \o ArtifactSteps \o RevpropSteps \o <<"u_done">>

\* The step after STEP
NextStep(step) ==
  LET i == CHOOSE k \in 1..Len(UpgradeSteps) : UpgradeSteps[k] = step
  IN  UpgradeSteps[i + 1]

\* write_format leaves the number it found.
WriteFormatKeeps(format) == format

\* write_format(format_path, SVN_FS_FS__FORMAT_NUMBER, ...): the number
\* in the format file after it
WriteFormat(format) == SVN_FS_FS__FORMAT_NUMBER

UpStep(step) == upResult = "running" /\ upc = step
UpGoOn == upc' = NextStep(upc) /\ UNCHANGED upResult

\* upgrade_body: read_format and check_format
UpReadFormat ==
  /\ UpStep("u_start")
  /\ up' = [up EXCEPT !.format = up.formatFile]
  /\ IF CheckFormat(up.formatFile) THEN UpGoOn
     ELSE upResult' = "error" /\ UNCHANGED upc
  /\ UNCHANGED upFrame

\* upgrade_body: "If the config file does not exist, create one.", and
\* "If we're already up-to-date, there's nothing else to be done here."
UpConfig ==
  /\ UpStep("u_config")
  /\ up' = [up EXCEPT !.artifacts = @ \cup {"config"}]
  /\ IF up.format = SVN_FS_FS__FORMAT_NUMBER
       THEN upResult' = "ok" /\ upc' = "u_done"
       ELSE UpGoOn
  /\ UNCHANGED upFrame

\* upgrade_body: create_file_ignore_eexist(path_txn_current(fs, pool), ...)
UpTxnCurrent ==
  /\ UpStep("u_txn_current")
  /\ up' = IF up.format < SVN_FS_FS__MIN_TXN_CURRENT_FORMAT
             THEN [up EXCEPT !.artifacts = @ \cup {"txn-current"}] ELSE up
  /\ UpGoOn
  /\ UNCHANGED upFrame

\* upgrade_body: create_file_ignore_eexist(path_txn_current_lock(fs, pool), ...)
UpTxnCurrentLock ==
  /\ UpStep("u_txn_current_lock")
  /\ up' = IF up.format < SVN_FS_FS__MIN_TXN_CURRENT_FORMAT
             THEN [up EXCEPT !.artifacts = @ \cup {"txn-current-lock"}] ELSE up
  /\ UpGoOn
  /\ UNCHANGED upFrame

\* upgrade_body: the 'txn-protorevs' directory
UpProtorevs ==
  /\ UpStep("u_protorevs")
  /\ up' = IF up.format < SVN_FS_FS__MIN_PROTOREVS_DIR_FORMAT
             THEN [up EXCEPT !.artifacts = @ \cup {"txn-protorevs"}] ELSE up
  /\ UpGoOn
  /\ UNCHANGED upFrame

\* upgrade_body: the min unpacked rev file, made by svn_io_file_create,
\* which returns EEXIST for a file that is there (create_file_ignore_eexist
\* is the wrapper that ignores it)
UpMinUnpacked ==
  /\ UpStep("u_min_unpacked")
  /\ IF up.format < SVN_FS_FS__MIN_PACKED_FORMAT
       THEN IF "min-unpacked-rev" \in up.artifacts
              THEN upResult' = "eexist" /\ UNCHANGED <<up, upc>>
              ELSE /\ up' = [up EXCEPT !.artifacts = @ \cup {"min-unpacked-rev"},
                                       !.shard = 0]
                   /\ UpGoOn
       ELSE up' = [up EXCEPT !.shard = 0] /\ UpGoOn
  /\ UNCHANGED upFrame

\* svn_fs_fs__upgrade_pack_revprops: the revision properties of one more
\* packed shard are packed; the files they were in stay.
UpPackRevprops ==
  /\ UpStep("u_pack_revprops")
  /\ NeedsRevpropPack(up.format, up.sharded)
  /\ up.shard < up.packedShards
  /\ up' = [up EXCEPT !.revpropPacks = IF @ < up.shard + 1 THEN up.shard + 1 ELSE @,
                      !.shard = @ + 1]
  /\ UNCHANGED <<upFrame, upc, upResult>>

\* upgrade_body: the revision properties are packed, or need not be.
UpPackDone ==
  /\ UpStep("u_pack_revprops")
  /\ ~(NeedsRevpropPack(up.format, up.sharded) /\ up.shard < up.packedShards)
  /\ up' = [up EXCEPT !.shard = 0]
  /\ UpGoOn
  /\ UNCHANGED upFrame

\* upgrade_body: "Bump the format file."
UpWriteFormat ==
  /\ UpStep("u_format")
  /\ up' = [up EXCEPT !.formatFile = WriteFormat(up.format), !.shard = 0]
  /\ UpGoOn
  /\ UNCHANGED upFrame

\* upgrade_body: notify_func(..., svn_fs_upgrade_format_bumped, ...)
UpNotify ==
  /\ UpStep("u_notify")
  /\ UpGoOn
  /\ UNCHANGED <<upFrame, up>>

\* svn_fs_fs__upgrade_cleanup_pack_revprops: the files of the revision
\* properties of one more packed shard are removed.
UpCleanup ==
  /\ UpStep("u_cleanup")
  /\ NeedsRevpropPack(up.format, up.sharded)
  /\ up.shard < up.packedShards
  /\ up' = [up EXCEPT
              !.unpackedRevprops = IF @ > up.packedShards - up.shard - 1
                                     THEN up.packedShards - up.shard - 1 ELSE @,
              !.shard = @ + 1]
  /\ UNCHANGED <<upFrame, upc, upResult>>

\* upgrade_body: "Done"
UpDone ==
  /\ UpStep("u_cleanup")
  /\ ~(NeedsRevpropPack(up.format, up.sharded) /\ up.shard < up.packedShards)
  /\ upResult' = "ok" /\ upc' = "u_done"
  /\ UNCHANGED <<upFrame, up>>

\* The steps at which the cancellation callback is consulted: it is handed
\* to the packing and to the cleanup of the revision properties, which
\* call it between shards.
UpCancelPoints == {"u_pack_revprops", "u_cleanup"}

\* cancel_func returns an error.
UpCancel ==
  /\ upResult = "running" /\ upc \in UpCancelPoints
  /\ NeedsRevpropPack(up.format, up.sharded)
  /\ upResult' = "cancelled"
  /\ UNCHANGED <<upFrame, up, upc>>

\* A step returns an error (SVN_ERR), the notification included.
UpFail ==
  /\ upResult = "running" /\ upc # "u_done"
  /\ upResult' = "error"
  /\ UNCHANGED <<upFrame, up, upc>>

\* The process dies.
UpCrash ==
  /\ upResult = "running" /\ upc # "u_done"
  /\ upResult' = "crashed"
  /\ UNCHANGED <<upFrame, up, upc>>

\* svn_fs_fs__upgrade is called again on the store an upgrade that did not
\* succeed has left.
UpAgain ==
  /\ upResult \in {"eexist", "error", "cancelled", "crashed"}
  /\ up.runs < MaxUpgrades
  /\ up' = [up EXCEPT !.runs = @ + 1, !.format = 0, !.shard = 0,
                      !.lateStop = @ \/ (up.format # 0 /\ up.formatFile # up.format)]
  /\ upc' = "u_start"
  /\ upResult' = "running"
  /\ UNCHANGED upFrame

\* A store of a supported or blacklisted format before its upgrade: it has
\* what its format has, and may have more, left by an upgrade that did
\* not get to the format file.
UpInit ==
  /\ FsInit /\ DeltaNone /\ ShareNone /\ FoldNone /\ HotNone
     /\ IdNone /\ LifeNone /\ PropNone /\ CacheNone /\ LookupNone /\ IndexNone /\ FinalNone
  /\ \E f \in 1..SVN_FS_FS__FORMAT_NUMBER : \E sharded \in BOOLEAN :
       \E left \in SUBSET Artifacts : \E p \in 0..MaxPackedShards :
         \E rp \in 0..p : \E urp \in 0..p :
           /\ sharded => f >= SVN_FS_FS__MIN_TXN_CURRENT_FORMAT
           /\ p > 0 => sharded /\ f >= SVN_FS_FS__MIN_PACKED_FORMAT
           /\ f >= SVN_FS_FS__MIN_PACKED_REVPROP_FORMAT => rp = p
           /\ f < SVN_FS_FS__MIN_PACKED_REVPROP_FORMAT => urp = p
           /\ up = [formatFile |-> f, format |-> 0, sharded |-> sharded,
                    artifacts |-> ArtifactsOf(f) \cup left,
                    packedShards |-> p, revpropPacks |-> rp,
                    unpackedRevprops |-> urp, shard |-> 0,
                    runs |-> 1, lateStop |-> FALSE]
  /\ upc = "u_start"
  /\ upResult = "running"

UpNext ==
  \/ UpReadFormat
  \/ UpConfig
  \/ UpTxnCurrent
  \/ UpTxnCurrentLock
  \/ UpProtorevs
  \/ UpMinUnpacked
  \/ UpPackRevprops
  \/ UpPackDone
  \/ UpWriteFormat
  \/ UpNotify
  \/ UpCleanup
  \/ UpDone
  \/ UpCancel
  \/ UpFail
  \/ UpCrash
  \/ UpAgain

UpSpec == UpInit /\ [][UpNext]_vars

\* What a store of the newest format has: the files, the directory, and
\* the revision properties of every packed shard in a pack.
HasNewFormatArtifacts(u) ==
  /\ Artifacts \subseteq u.artifacts
  /\ u.revpropPacks = u.packedShards

\* ---- transaction ids: create_txn_dir ----

\* svn_fs_fs__next_key: the key after KEY
NextKey(key) == key + 1

\* "%ld-%s": the id of the transaction based on REV with the key KEY
TxnId(rev, key) == <<rev, key>>

\* SVN_MUTEX__WITH_LOCK(ffsd->txn_current_lock, ...) never waits.
TxnCurrentLockAlwaysFree(p) == TRUE

\* SVN_MUTEX__WITH_LOCK(ffsd->txn_current_lock, ...): the mutex of process P
\* can be taken.
TxnCurrentLockFree(p) == txnCurrentLock[p] = NoW

\* svn_io_file_lock2 (exclusive, blocking) on txn-current-lock by a thread
\* of process P: the lock is granted unless a handle of another process
\* holds it; what it does between the handles of one process is left to
\* the platform, and the weakest is taken.
TxnCurrentFlockFree(p) == \A v \in txnCurrentFlock : procOf[v] = p

\* create_txn_dir is called for a transaction based on REV, and
\* with_txn_current_lock takes the mutex.
IdBegin(w) ==
  /\ idc[w] = "idle"
  /\ Len(returned) < MaxBegins
  /\ txnCurrentFile < MaxBegins
  /\ TxnCurrentLockFree(procOf[w])
  /\ \E rev \in 0..MaxBaseRev : idRev' = [idRev EXCEPT ![w] = rev]
  /\ txnCurrentLock' = [txnCurrentLock EXCEPT ![procOf[w]] = w]
  /\ idc' = [idc EXCEPT ![w] = "i_flock"]
  /\ UNCHANGED <<idFrame, txnCurrentFile, txnCurrentFlock, cbTxnId, txnDirs, returned>>

\* with_some_lock_file: get_lock_on_filesystem
IdLockFile(w) ==
  /\ idc[w] = "i_flock"
  /\ TxnCurrentFlockFree(procOf[w])
  /\ txnCurrentFlock' = txnCurrentFlock \cup {w}
  /\ idc' = [idc EXCEPT ![w] = "i_read"]
  /\ UNCHANGED <<idFrame, txnCurrentFile, txnCurrentLock, cbTxnId, idRev, txnDirs, returned>>

\* get_and_increment_txn_key_body: svn_fs_fs__read_content
IdRead(w) ==
  /\ idc[w] = "i_read"
  /\ cbTxnId' = [cbTxnId EXCEPT ![w] = txnCurrentFile]
  /\ idc' = [idc EXCEPT ![w] = "i_write"]
  /\ UNCHANGED <<idFrame, txnCurrentFile, txnCurrentLock, txnCurrentFlock, idRev, txnDirs,
                 returned>>

\* get_and_increment_txn_key_body: svn_io_write_atomic of the next key
IdWrite(w) ==
  /\ idc[w] = "i_write"
  /\ txnCurrentFile' = NextKey(cbTxnId[w])
  /\ idc' = [idc EXCEPT ![w] = "i_unlock"]
  /\ UNCHANGED <<idFrame, txnCurrentLock, txnCurrentFlock, cbTxnId, idRev, txnDirs, returned>>

\* get_and_increment_txn_key_body returns an error from the read or the
\* write (SVN_ERR); the locks are released and create_txn_dir returns it.
IdBodyFails(w) ==
  /\ idc[w] \in {"i_read", "i_write"}
  /\ txnCurrentFlock' = txnCurrentFlock \ {w}
  /\ txnCurrentLock' = [txnCurrentLock EXCEPT ![procOf[w]] = NoW]
  /\ idc' = [idc EXCEPT ![w] = "idle"]
  /\ UNCHANGED <<idFrame, txnCurrentFile, cbTxnId, idRev, txnDirs, returned>>

\* with_some_lock_file destroys the subpool, which closes the handle, and
\* the mutex is released.
IdUnlock(w) ==
  /\ idc[w] = "i_unlock"
  /\ txnCurrentFlock' = txnCurrentFlock \ {w}
  /\ txnCurrentLock' = [txnCurrentLock EXCEPT ![procOf[w]] = NoW]
  /\ idc' = [idc EXCEPT ![w] = "i_mkdir"]
  /\ UNCHANGED <<idFrame, txnCurrentFile, cbTxnId, idRev, txnDirs, returned>>

\* create_txn_dir: the id is made of REV and the key, and svn_io_dir_make
\* creates the transaction directory; it fails if the directory exists.
IdMakeDir(w) ==
  /\ idc[w] = "i_mkdir"
  /\ LET id == TxnId(idRev[w], cbTxnId[w]) IN
       IF id \in txnDirs
         THEN UNCHANGED <<txnDirs, returned>>
         ELSE txnDirs' = txnDirs \cup {id} /\ returned' = Append(returned, id)
  /\ idc' = [idc EXCEPT ![w] = "idle"]
  /\ UNCHANGED <<idFrame, txnCurrentFile, txnCurrentLock, txnCurrentFlock, cbTxnId, idRev>>

\* svn_fs_fs__purge_txn, after a commit or an abort: the directory of a
\* transaction is removed.
IdPurge(id) ==
  /\ id \in txnDirs
  /\ txnDirs' = txnDirs \ {id}
  /\ UNCHANGED <<idFrame, txnCurrentFile, txnCurrentLock, txnCurrentFlock, idc, cbTxnId,
                 idRev, returned>>

\* A store with its txn-current file at "0", as svn_fs_fs__create leaves
\* it, used by two threads of one or of two processes.
IdInit ==
  /\ FsInit /\ DeltaNone /\ ShareNone /\ FoldNone /\ HotNone
     /\ UpNone /\ LifeNone /\ PropNone /\ CacheNone /\ LookupNone /\ IndexNone /\ FinalNone
  /\ IdNone

IdNext ==
  \/ \E w \in Workers :
       \/ IdBegin(w)
       \/ IdLockFile(w)
       \/ IdRead(w)
       \/ IdWrite(w)
       \/ IdBodyFails(w)
       \/ IdUnlock(w)
       \/ IdMakeDir(w)
  \/ \E id \in txnDirs : IdPurge(id)

IdSpec == IdInit /\ [][IdNext]_vars

\* ---- the life of a transaction: svn_fs_fs__purge_txn, svn_fs_fs__open_txn ----

\* get_writable_proto_rev_body on T by thread W, under the txn-list mutex:
\* the object is looked up and created (get_shared_txn with CREATE_NEW);
\* if it is not being written the lock file is opened with APR_CREATE and
\* locked without waiting; then the proto-rev file is opened, and the lock
\* is given back if that fails.  "ok" leaves W with the flag and the lock.
LifeGetWritableOutcome(w) ==
  IF sharedTxn[procOf[w]] = "being_written" THEN "rbw"
  ELSE IF protoFlock # NoW THEN "rbw"
  ELSE IF ~txnFiles.proto THEN "error"
  ELSE "ok"

LifeGetWritable(w) ==
  LET out == LifeGetWritableOutcome(w) IN
  /\ sharedTxn' = [sharedTxn EXCEPT ![procOf[w]] =
                     IF out = "ok" THEN "being_written"
                     ELSE IF @ = "none" THEN "idle" ELSE @]
  /\ txnFiles' = IF sharedTxn[procOf[w]] = "being_written" THEN txnFiles
                 ELSE [txnFiles EXCEPT !.lock = TRUE]
  /\ protoFlock' = IF out = "ok" THEN w ELSE protoFlock
  /\ raced' = IF raced = "none" THEN "none" ELSE "late"

\* unlock_proto_rev_body by thread W: an error if T has no object or is
\* not being written, else the lock is released and the flag reset.  The
\* handle of the lock file goes with W's pool in the end.
LifeUnlockOk(w) == sharedTxn[procOf[w]] = "being_written"

LifeUnlock(w) ==
  /\ sharedTxn' = IF LifeUnlockOk(w) THEN [sharedTxn EXCEPT ![procOf[w]] = "idle"]
                  ELSE sharedTxn
  /\ protoFlock' = IF protoFlock = w THEN NoW ELSE protoFlock

LifeEnd(w, res) == tpc' = [tpc EXCEPT ![w] = "idle"] /\ tres' = [tres EXCEPT ![w] = res]
LifeGo(w, step) == tpc' = [tpc EXCEPT ![w] = step] /\ UNCHANGED tres

\* svn_fs_fs__open_txn: "First check to see if the directory exists."
OpenTxnResult == IF txnFiles.dir THEN "opened" ELSE "no_such_transaction"

LifeOpenTxn(w) ==
  /\ tpc[w] = "idle" /\ ~handle[w]
  /\ handle' = [handle EXCEPT ![w] = OpenTxnResult = "opened"]
  /\ LifeEnd(w, OpenTxnResult)
  /\ UNCHANGED <<lifeFrame, txnFiles, protoFlock, sharedTxn, raced>>

\* rep_write_get_baton: a representation is begun in T's proto-rev file.
LifeWriteOpen(w) ==
  /\ tpc[w] = "idle" /\ handle[w]
  /\ LifeGetWritable(w)
  /\ IF LifeGetWritableOutcome(w) = "ok" THEN LifeGo(w, "t_writing") ELSE LifeEnd(w, "error")
  /\ UNCHANGED <<lifeFrame, handle>>

\* rep_write_contents_close: the representation is finished and the
\* proto-rev file unlocked.
LifeWriteClose(w) ==
  /\ tpc[w] = "t_writing"
  /\ LifeUnlock(w)
  /\ LifeEnd(w, IF LifeUnlockOk(w) /\ txnFiles.dir THEN "written" ELSE "error")
  /\ UNCHANGED <<lifeFrame, txnFiles, handle, raced>>

\* The global write lock lets one commit at a time in.
CommitSteps == {"t_commit", "t_move", "t_unlock"}

\* svn_fs_fs__commit: commit_body under the write lock reads the
\* transaction from its directory and takes the proto-rev file.
LifeCommit(w) ==
  /\ tpc[w] = "idle" /\ handle[w]
  /\ \A v \in Workers :
       tpc[v] \notin CommitSteps \cup {"cp_shared", "cp_dir", "cp_proto", "cp_lock"}
  /\ IF txnFiles.dir THEN LifeGo(w, "t_commit") ELSE LifeEnd(w, "error")
  /\ UNCHANGED <<lifeFrame, txnFiles, protoFlock, sharedTxn, handle, raced>>

\* commit_body: get_writable_proto_rev
LifeCommitGetWritable(w) ==
  /\ tpc[w] = "t_commit"
  /\ LifeGetWritable(w)
  /\ IF LifeGetWritableOutcome(w) = "ok" THEN LifeGo(w, "t_move") ELSE LifeEnd(w, "error")
  /\ UNCHANGED <<lifeFrame, handle>>

\* commit_body: the final revision is written and the proto-rev file is
\* moved into place.
LifeCommitMove(w) ==
  /\ tpc[w] = "t_move"
  /\ IF txnFiles.proto /\ txnFiles.dir
       THEN txnFiles' = [txnFiles EXCEPT !.proto = FALSE] /\ LifeGo(w, "t_unlock")
       ELSE UNCHANGED txnFiles /\ LifeEnd(w, "error")
  /\ UNCHANGED <<lifeFrame, protoFlock, sharedTxn, handle, raced>>

\* commit_body: unlock_proto_rev; the revprops and 'current' follow.
LifeCommitUnlock(w) ==
  /\ tpc[w] = "t_unlock"
  /\ LifeUnlock(w)
  /\ IF LifeUnlockOk(w) THEN LifeGo(w, "cp_shared") ELSE LifeEnd(w, "error")
  /\ UNCHANGED <<lifeFrame, txnFiles, handle, raced>>

\* svn_fs_fs__abort_txn
LifeAbort(w) ==
  /\ tpc[w] = "idle" /\ handle[w]
  /\ LifeGo(w, "ap_shared")
  /\ UNCHANGED <<lifeFrame, txnFiles, protoFlock, sharedTxn, handle, raced>>

\* The steps of svn_fs_fs__purge_txn, called by the commit ("cp") and by
\* the abort ("ap").
CommitPurgeSteps == {"cp_shared", "cp_dir", "cp_proto", "cp_lock"}
AbortPurgeSteps == {"ap_shared", "ap_dir", "ap_proto", "ap_lock"}
PurgeGo(w, cstep, astep) == LifeGo(w, IF tpc[w] \in CommitPurgeSteps THEN cstep ELSE astep)

\* svn_fs_fs__purge_txn: purge_shared_txn -> free_shared_txn
LifePurgeShared(w) ==
  /\ tpc[w] \in {"cp_shared", "ap_shared"}
  /\ sharedTxn' = [sharedTxn EXCEPT ![procOf[w]] = "none"]
  /\ raced' = IF raced = "none" THEN "purging" ELSE raced
  /\ PurgeGo(w, "cp_dir", "ap_dir")
  /\ UNCHANGED <<lifeFrame, txnFiles, protoFlock, handle>>

\* svn_fs_fs__purge_txn: svn_io_remove_dir2 of the transaction directory,
\* an error if it is not there
LifePurgeDir(w) ==
  /\ tpc[w] \in {"cp_dir", "ap_dir"}
  /\ IF txnFiles.dir
       THEN txnFiles' = [txnFiles EXCEPT !.dir = FALSE] /\ PurgeGo(w, "cp_proto", "ap_proto")
       ELSE UNCHANGED txnFiles /\ LifeEnd(w, "error")
  /\ UNCHANGED <<lifeFrame, protoFlock, sharedTxn, handle, raced>>

\* svn_fs_fs__purge_txn: svn_io_remove_file2 of the proto-rev file
LifePurgeProto(w) ==
  /\ tpc[w] \in {"cp_proto", "ap_proto"}
  /\ txnFiles' = [txnFiles EXCEPT !.proto = FALSE]
  /\ PurgeGo(w, "cp_lock", "ap_lock")
  /\ UNCHANGED <<lifeFrame, protoFlock, sharedTxn, handle, raced>>

\* The rev-lock file is left.
LockFileKept(files) == files

\* svn_io_remove_file2 of the rev-lock file
LockFileRemoved(files) == [files EXCEPT !.lock = FALSE]

\* svn_fs_fs__purge_txn: the rev-lock file is removed (a holder keeps its
\* lock on the unlinked file, the path is free), and the commit or the
\* abort returns.
LifePurgeLock(w) ==
  /\ tpc[w] \in {"cp_lock", "ap_lock"}
  /\ txnFiles' = LockFileRemoved(txnFiles)
  /\ protoFlock' = NoW
  /\ LifeEnd(w, IF tpc[w] \in CommitPurgeSteps THEN "committed" ELSE "aborted")
  /\ UNCHANGED <<lifeFrame, sharedTxn, handle, raced>>

\* A removal of svn_fs_fs__purge_txn fails (SVN_ERR).
LifePurgeFails(w) ==
  /\ tpc[w] \in {"cp_dir", "ap_dir", "cp_proto", "ap_proto", "cp_lock", "ap_lock"}
  /\ LifeEnd(w, "error")
  /\ UNCHANGED <<lifeFrame, txnFiles, protoFlock, sharedTxn, handle, raced>>

\* svn_fs_fs__create_txn has made T, with its directory, its proto-rev
\* file and its rev-lock file; the thread that began it has a handle for
\* it, the other one may have opened it.
LifeInit ==
  /\ FsInit /\ DeltaNone /\ ShareNone /\ FoldNone /\ HotNone
     /\ UpNone /\ IdNone /\ PropNone /\ CacheNone /\ LookupNone /\ IndexNone /\ FinalNone
  /\ txnFiles = [dir |-> TRUE, proto |-> TRUE, lock |-> TRUE]
  /\ protoFlock = NoW
  /\ sharedTxn = [p \in Procs |-> "none"]
  /\ handle \in {[w \in Workers |-> w = "w1"], [w \in Workers |-> TRUE]}
  /\ tpc = [w \in Workers |-> "idle"]
  /\ tres = [w \in Workers |-> "none"]
  /\ raced = "none"

LifeNext ==
  \E w \in Workers :
    \/ LifeOpenTxn(w)
    \/ LifeWriteOpen(w)
    \/ LifeWriteClose(w)
    \/ LifeCommit(w)
    \/ LifeCommitGetWritable(w)
    \/ LifeCommitMove(w)
    \/ LifeCommitUnlock(w)
    \/ LifeAbort(w)
    \/ LifePurgeShared(w)
    \/ LifePurgeDir(w)
    \/ LifePurgeProto(w)
    \/ LifePurgeLock(w)
    \/ LifePurgeFails(w)

LifeSpec == LifeInit /\ [][LifeNext]_vars

\* T's object in the list of the process of thread W
SharedTxnOf(w) == sharedTxn[procOf[w]]

\* ---- revision properties: svn_fs_fs__change_rev_prop ----

\* change_rev_prop_body: "What we expected isn't what we found."
\*   (!wanted_value != !present_value)
\*   || (wanted_value && present_value && !svn_string_compare(...))
BaseValueMismatch(wanted, present) ==
  \/ (wanted = Absent) # (present = Absent)
  \/ wanted # Absent /\ present # Absent /\ wanted # present

\* SVN_MUTEX__WITH_LOCK(ffsd->fs_write_lock, ...) never waits.
FsWriteLockAlwaysFree(p) == TRUE

\* SVN_MUTEX__WITH_LOCK(ffsd->fs_write_lock, ...): the mutex of process P can
\* be taken.
FsWriteLockFree(p) == rpMutex[p] = NoW

\* svn_io_file_lock2 on the 'lock' file by a thread of process P: granted
\* unless a handle of another process holds it.
LockFileFree(p) == \A v \in rpFlock : procOf[v] = p

\* The steps of a call at which change_rev_prop_body runs
InBody == {"r_read", "r_write"}

\* svn_fs_fs__change_rev_prop is called, and svn_fs_fs__with_write_lock
\* takes the mutex.
PropCall(w) ==
  /\ rpc[w] = "idle" /\ rpRes[w] = "none"
  /\ FsWriteLockFree(procOf[w])
  /\ \E old \in PropValues \cup {Absent, AnyValue} : \E new \in PropValues \cup {Absent} :
       /\ cbOldValue' = [cbOldValue EXCEPT ![w] = old]
       /\ cbValue' = [cbValue EXCEPT ![w] = new]
  /\ rpMutex' = [rpMutex EXCEPT ![procOf[w]] = w]
  /\ rpc' = [rpc EXCEPT ![w] = "r_flock"]
  /\ UNCHANGED <<propFrame, revprop, revpropInit, presentValue, rpRes, rpFlock>>

\* with_some_lock_file: get_lock_on_filesystem
PropLockFile(w) ==
  /\ rpc[w] = "r_flock"
  /\ LockFileFree(procOf[w])
  /\ rpFlock' = rpFlock \cup {w}
  /\ rpc' = [rpc EXCEPT ![w] = "r_read"]
  /\ UNCHANGED <<propFrame, revprop, revpropInit, cbOldValue, cbValue, presentValue, rpRes,
                 rpMutex>>

\* The call returns RES: the subpool is destroyed, which unlocks the file,
\* and the mutex is released.
PropReturn(w, res) ==
  /\ rpFlock' = rpFlock \ {w}
  /\ rpMutex' = [rpMutex EXCEPT ![procOf[w]] = NoW]
  /\ rpc' = [rpc EXCEPT ![w] = "idle"]
  /\ rpRes' = [rpRes EXCEPT ![w] = res]

\* change_rev_prop_body: svn_fs_fs__get_revision_proplist and the
\* comparison with the expected value
PropRead(w) ==
  /\ rpc[w] = "r_read"
  /\ presentValue' = [presentValue EXCEPT ![w] = revprop]
  /\ IF cbOldValue[w] # AnyValue /\ BaseValueMismatch(cbOldValue[w], revprop)
       THEN PropReturn(w, "prop_basevalue_mismatch")
       ELSE /\ rpc' = [rpc EXCEPT ![w] = "r_write"]
            /\ UNCHANGED <<rpRes, rpMutex, rpFlock>>
  /\ UNCHANGED <<propFrame, revprop, revpropInit, cbOldValue, cbValue>>

\* change_rev_prop_body: svn_hash_sets and svn_fs_fs__set_revision_proplist
PropWrite(w) ==
  /\ rpc[w] = "r_write"
  /\ revprop' = cbValue[w]
  /\ PropReturn(w, "applied")
  /\ UNCHANGED <<propFrame, revpropInit, cbOldValue, cbValue, presentValue>>

\* svn_fs_fs__get_revision_proplist or svn_fs_fs__set_revision_proplist
\* returns an error; the stored value stays.
PropFails(w) ==
  /\ rpc[w] \in InBody
  /\ PropReturn(w, "error")
  /\ UNCHANGED <<propFrame, revprop, revpropInit, cbOldValue, cbValue, presentValue>>

\* The property has some value or none, and two threads of one or of two
\* processes are about to change it.
PropInit ==
  /\ FsInit /\ DeltaNone /\ ShareNone /\ FoldNone /\ HotNone
     /\ UpNone /\ IdNone /\ LifeNone /\ CacheNone /\ LookupNone /\ IndexNone /\ FinalNone
  /\ revprop \in PropValues \cup {Absent}
  /\ revpropInit = revprop
  /\ cbOldValue = [w \in Workers |-> AnyValue]
  /\ cbValue = [w \in Workers |-> Absent]
  /\ presentValue = [w \in Workers |-> Absent]
  /\ rpc = [w \in Workers |-> "idle"]
  /\ rpRes = [w \in Workers |-> "none"]
  /\ rpMutex = [p \in Procs |-> NoW]
  /\ rpFlock = {}

PropNext ==
  \E w \in Workers :
    \/ PropCall(w)
    \/ PropLockFile(w)
    \/ PropRead(w)
    \/ PropWrite(w)
    \/ PropFails(w)

PropSpec == PropInit /\ [][PropNext]_vars

\* Both threads changed the property with the expected value OLD, and
\* both calls are over.
BothChanged(old) ==
  /\ old # AnyValue
  /\ \A w \in Workers : rpRes[w] # "none" /\ rpc[w] = "idle" /\ cbOldValue[w] = old

\* The threads whose change was applied
Applied == {w \in Workers : rpRes[w] = "applied"}

\* ---- the cache (svn_cache_create, svn_cache_set, svn_cache_get) ----

\* the entries a cache of that many pages and items per page has room for
CacheRoom(pages, items) == pages * items

\* the place of key in the entries, 0 if the cache does not hold it
CacheFind(entries, key) ==
  IF \E i \in 1..Len(entries) : entries[i].key = key
    THEN CHOOSE i \in 1..Len(entries) : entries[i].key = key
    ELSE 0

\* A variant of CacheSetEntries that never expires an entry.
CacheSetKeepsAll(entries, key, value, room) ==
  IF CacheFind(entries, key) # 0
    THEN [entries EXCEPT ![CacheFind(entries, key)].value = value]
    ELSE Append(entries, [key |-> key, value |-> value])

\* svn_cache_set: the value of a key the cache holds is replaced; another
\* key is added, after the oldest entry has expired if there is no room
CacheSetEntries(entries, key, value, room) ==
  IF CacheFind(entries, key) # 0
    THEN [entries EXCEPT ![CacheFind(entries, key)].value = value]
    ELSE IF Len(entries) < room
      THEN Append(entries, [key |-> key, value |-> value])
      ELSE Append(Tail(entries), [key |-> key, value |-> value])

\* svn_cache_set(cache, key, value)
CacheSet(key, value) ==
  /\ cacheEntries' = CacheSetEntries(cacheEntries, key, value,
                                     CacheRoom(cachePages, cacheItems))
  /\ everSet' = everSet \cup {key}
  /\ lastSet' = [key |-> key, value |-> value]
  /\ got' = NoGet
  /\ UNCHANGED <<cachePages, cacheItems, cacheFrame>>

\* svn_cache_get(&value, &found, cache, key)
CacheGet(key) ==
  /\ got' = IF CacheFind(cacheEntries, key) # 0
              THEN [key |-> key, found |-> TRUE,
                    value |-> cacheEntries[CacheFind(cacheEntries, key)].value]
              ELSE [key |-> key, found |-> FALSE, value |-> -1]
  /\ UNCHANGED <<cachePages, cacheItems, cacheEntries, everSet, lastSet, cacheFrame>>

\* svn_cache_create(&cache, dup, klen, pages, items_per_page, thread_safe)
CacheInit ==
  /\ FsInit /\ DeltaNone /\ ShareNone /\ FoldNone /\ HotNone
     /\ UpNone /\ IdNone /\ LifeNone /\ PropNone /\ LookupNone /\ IndexNone /\ FinalNone
  /\ cachePages \in 1..MaxPages
  /\ cacheItems \in 1..MaxItemsPerPage
  /\ cacheEntries = <<>>
  /\ everSet = {}
  /\ lastSet = NoEntry
  /\ got = NoGet

CacheNext ==
  \/ \E key \in CacheKeys, value \in CacheValues : CacheSet(key, value)
  \/ \E key \in CacheKeys : CacheGet(key)

CacheSpec == CacheInit /\ [][CacheNext]_vars

\* ---- get_shared_rep, store by store ----

\* A get_shared_rep that masks every error but SVN_ERR_FS_CORRUPT.
FatalLookupErrorCorruptOnly(db) == db = "corrupt"

\* get_shared_rep: the errors of the lookup in the rep-cache that are
\* returned to the caller
FatalLookupError(db) == db \in {"corrupt", "malfunction"}

\* A get_shared_rep that consults the rep-cache whatever REPS_HASH held.
AfterHashAlwaysDb(old) == "db"

\* get_shared_rep: where it goes on after the lookup in REPS_HASH
AfterHash(old) == IF old = "none" THEN "db" ELSE "file"

\* get_shared_rep: "Return NULL, if rep sharing has been disabled."
GetSharedRepStart ==
  /\ lkpc = "start"
  /\ lkpc' = IF lk.allowed THEN "hash" ELSE "return"
  /\ UNCHANGED <<lk, lkTiers, lkOld, lkErr, lkWarned, lkWrite, lookupFrame>>

\* get_shared_rep: apr_hash_get(reps_hash, ...) if REPS_HASH is given
GetSharedRepHash ==
  /\ lkpc = "hash"
  /\ LET old == IF lk.hashGiven /\ lk.inHash THEN "hash" ELSE "none" IN
     /\ lkOld' = old
     /\ lkpc' = AfterHash(old)
  /\ lkTiers' = IF lk.hashGiven THEN Append(lkTiers, "hash") ELSE lkTiers
  /\ UNCHANGED <<lk, lkErr, lkWarned, lkWrite, lookupFrame>>

\* get_shared_rep: svn_fs_fs__get_rep_reference and svn_fs_fs__check_rep
GetSharedRepDb ==
  /\ lkpc = "db"
  /\ lkTiers' = Append(lkTiers, "db")
  /\ IF lk.db = "hit"
       THEN lkOld' = "db" /\ lkpc' = "file" /\ UNCHANGED <<lkErr, lkWarned>>
     ELSE IF lk.db = "miss"
       THEN lkpc' = "file" /\ UNCHANGED <<lkOld, lkErr, lkWarned>>
     ELSE IF lk.db = "badrep" \/ FatalLookupError(lk.db)
       THEN /\ lkErr' = lk.db
            /\ lkOld' = IF lk.db = "badrep" THEN "db" ELSE "none"
            /\ lkpc' = "return"
            /\ UNCHANGED lkWarned
     ELSE /\ lkWarned' = TRUE
          /\ lkOld' = "none"
          /\ lkpc' = "file"
          /\ UNCHANGED lkErr
  /\ UNCHANGED <<lk, lkWrite, lookupFrame>>

\* get_shared_rep: "look for intra-revision matches"
GetSharedRepFile ==
  /\ lkpc = "file"
  /\ IF lkOld = "none" /\ lk.txnId
       THEN /\ lkTiers' = Append(lkTiers, "file")
            /\ lkOld' = IF lk.inFile THEN "file" ELSE "none"
       ELSE UNCHANGED <<lkTiers, lkOld>>
  /\ lkpc' = "return"
  /\ UNCHANGED <<lk, lkErr, lkWarned, lkWrite, lookupFrame>>

\* rep_write_contents_close, write_hash_rep and write_hash_delta_rep after
\* SVN_ERR(get_shared_rep(...)): the error is returned, or what was written
\* is truncated away and the old representation used, or the new one stays
UseSharedRep ==
  /\ lkpc = "return"
  /\ lkWrite' = IF lkErr # "none" THEN "failed"
                ELSE IF lkOld # "none" THEN "shared" ELSE "new"
  /\ lkpc' = "done"
  /\ UNCHANGED <<lk, lkTiers, lkOld, lkErr, lkWarned, lookupFrame>>

\* A representation was written: REPS_HASH is given or not, the
\* representation is one of a transaction or not, and each store holds its
\* SHA-1 or not.
LookupInit ==
  /\ FsInit /\ DeltaNone /\ ShareNone /\ FoldNone /\ HotNone
     /\ UpNone /\ IdNone /\ LifeNone /\ PropNone /\ CacheNone /\ IndexNone /\ FinalNone
  /\ lk \in [allowed : BOOLEAN, hashGiven : BOOLEAN, inHash : BOOLEAN,
             db : DbOutcomes, txnId : BOOLEAN, inFile : BOOLEAN]
  /\ lk.inHash => lk.hashGiven
  /\ lk.inFile => lk.txnId
  /\ lkpc = "start"
  /\ lkTiers = <<>>
  /\ lkOld = "none"
  /\ lkErr = "none"
  /\ lkWarned = FALSE
  /\ lkWrite = "none"

LookupNext ==
  \/ GetSharedRepStart
  \/ GetSharedRepHash
  \/ GetSharedRepDb
  \/ GetSharedRepFile
  \/ UseSharedRep

LookupSpec == LookupInit /\ [][LookupNext]_vars

\* ---- the ids of a commit: write_final_rev, write_final_current ----

\* ffd->format >= SVN_FS_FS__MIN_NO_GLOBAL_IDS_FORMAT
NoGlobalIds(format) == format >= SVN_FS_FS__MIN_NO_GLOBAL_IDS_FORMAT

\* svn_fs_fs__add_keys: the sum of two base-36 numbers
AddKeys(key1, key2) == key1 + key2

\* A conversion that keeps the key's value and adds nothing to it.
FinalKeyBare(key, rev, start, format) ==
  IF key.fresh THEN PlainKey(key.val) ELSE key

\* write_final_rev, "Convert our temporary ID into a permanent revision
\* one": a key with the '_' prefix loses it and gets the suffix "-<rev>"
\* or, with global ids, the start id added; any other key is kept.
FinalKey(key, rev, start, format) ==
  IF key.fresh
    THEN IF NoGlobalIds(format)
           THEN Key(FALSE, key.val, rev)
           ELSE PlainKey(AddKeys(start, key.val))
    ELSE key

\* the children, sorted by name, before their directory
FinalOrder == <<"g", "a", "f", "root">>

\* the key a node-revision of an earlier revision has, in each format
OldKey(format, rev) ==
  IF NoGlobalIds(format) /\ rev > 1 THEN Key(FALSE, 0, rev - 1) ELSE PlainKey(0)

\* The keys a transaction gives its node-revisions: the ones
\* get_new_txn_node_id and svn_fs_fs__reserve_copy_id handed out, below the
\* counters of next-ids, or the key of the node-revision's predecessor.
TxnNodeKeys(format, rev, next) ==
  {Key(TRUE, v, NoSuffix) : v \in 0..(next.node - 1)} \cup {OldKey(format, rev)}
TxnCopyKeys(format, rev, next) ==
  {Key(TRUE, v, NoSuffix) : v \in 0..(next.copy - 1)} \cup {OldKey(format, rev)}

\* The node-revisions a path of the transaction's tree can have: none, one
\* of the revision the transaction is based on, or a mutable one.
PathNoderevs(n, format, rev, next) ==
  {NoNoderev, Noderev("rev", IdRevCreate(OldKey(format, rev), OldKey(format, rev), rev - 1, 0),
                      FALSE)}
  \cup {Noderev("txn", IdTxnCreate(k, c), d) :
          k \in TxnNodeKeys(format, rev, next), c \in TxnCopyKeys(format, rev, next),
          d \in IF n \in FinalDirs THEN BOOLEAN ELSE {TRUE}}

\* What svn_fs_fs__create_txn, svn_fs_fs__create_node,
\* svn_fs_fs__create_successor and svn_fs_fs__set_entry keep true of a
\* transaction's tree: the root is mutable with node id and copy id "0"; a
\* mutable node-revision sits in a mutable directory whose entries were
\* rewritten; no two node-revisions got one new node id.
WellFormedTree(t) ==
  /\ t["root"].state = "txn"
  /\ t["root"].id.node_id = PlainKey(0) /\ t["root"].id.copy_id = PlainKey(0)
  /\ t["g"].state # "absent" => t["a"].state # "absent"
  /\ \A c \in FinalNodes \ {"root"} :
       t[c].state = "txn" =>
         t[FinalParent[c]].state = "txn" /\ t[FinalParent[c]].data_rep_txn
  /\ \A c, e \in FinalNodes :
       (c # e /\ t[c].state = "txn" /\ t[e].state = "txn" /\ t[c].id.node_id.fresh) =>
          t[c].id.node_id # t[e].id.node_id

FinalTrees(format, rev, next) ==
  {t \in {[root |-> r, a |-> x, f |-> y, g |-> z] :
            r \in PathNoderevs("root", format, rev, next),
            x \in PathNoderevs("a", format, rev, next),
            y \in PathNoderevs("f", format, rev, next),
            z \in PathNoderevs("g", format, rev, next)} : WellFormedTree(t)}

FinalFormats == {SVN_FS_FS__MIN_NO_GLOBAL_IDS_FORMAT - 1, SVN_FS_FS__MIN_NO_GLOBAL_IDS_FORMAT}

\* commit_body has read 'current' (get_next_revision_ids, with global ids)
\* and calls write_final_rev on the root of the transaction.
FinalInit ==
  /\ FsInit /\ DeltaNone /\ ShareNone /\ FoldNone /\ HotNone /\ UpNone
     /\ IdNone /\ LifeNone /\ PropNone /\ CacheNone /\ LookupNone /\ IndexNone
  /\ finFormat \in FinalFormats
  /\ finRev \in 1..MaxFinalRev
  /\ finStart \in IF NoGlobalIds(finFormat) THEN {NoStart}
                    ELSE [node : 1..MaxStart, copy : 1..MaxStart]
  /\ finNextIds \in [node : 0..MaxLocal, copy : 0..MaxCopies]
  /\ finTree \in FinalTrees(finFormat, finRev, finNextIds)
  /\ finNewId = [n \in FinalNodes |-> NoId]
  /\ finRevFile = [n \in FinalNodes |-> NotWritten]
  /\ finpc = 1
  /\ finCurrent = [rev |-> finRev - 1, next |-> finStart]
  /\ finResult = "running"

\* write_final_rev is called on the root and on every entry of a directory
\* it did not return from at once.
RECURSIVE FinalCalled(_)
FinalCalled(n) ==
  IF n = "root" THEN TRUE
  ELSE /\ finTree[n].state # "absent"
       /\ finTree[FinalParent[n]].state = "txn"
       /\ FinalCalled(FinalParent[n])

\* write_final_rev on a directory: the id each entry names after the calls
\* on its entries returned ("if (new_id && id_rev(new_id) == rev)").
FinalEntries(n) ==
  [c \in {e \in FinalChildren(n) : finTree[e].state # "absent"} |->
     IF finNewId[c] # NoId /\ finNewId[c].rev = finRev THEN finNewId[c]
     ELSE finTree[c].id]

\* the entries of a directory whose data_rep is not rewritten
StoredEntries(n) ==
  [c \in {e \in FinalChildren(n) : finTree[e].state # "absent"} |-> finTree[c].id]

\* write_final_rev, from the return of the calls on the entries to its own
\* return: nothing for an id that is not of the transaction; else the
\* directory's entries are written if its data_rep is mutable, the id is
\* made permanent and the node-revision written at my_offset.
WriteFinalRev ==
  /\ finResult = "running"
  /\ finpc \in 1..Len(FinalOrder)
  /\ LET n == FinalOrder[finpc]
         noderev == finTree[n]
         new_id == IdRevCreate(FinalKey(noderev.id.node_id, finRev, finStart.node, finFormat),
                         FinalKey(noderev.id.copy_id, finRev, finStart.copy, finFormat),
                         finRev, finpc)
     IN IF FinalCalled(n) /\ noderev.id.txn_id
          THEN /\ finNewId' = [finNewId EXCEPT ![n] = new_id]
               /\ finRevFile' = [finRevFile EXCEPT ![n] =
                    Written(new_id, IF noderev.data_rep_txn THEN FinalEntries(n)
                                    ELSE StoredEntries(n))]
          ELSE UNCHANGED <<finNewId, finRevFile>>
  /\ finpc' = finpc + 1
  /\ UNCHANGED <<finFormat, finRev, finStart, finNextIds, finTree, finCurrent, finResult>>
  /\ UNCHANGED finalFrame

\* A step of write_final_rev or of what commit_body does after it fails.
WriteFinalRevFail ==
  /\ finResult = "running"
  /\ finResult' = "error"
  /\ UNCHANGED <<finFormat, finRev, finStart, finNextIds, finTree, finNewId, finRevFile,
                 finpc, finCurrent>>
  /\ UNCHANGED finalFrame

\* write_final_current: the revision and, with global ids, the start ids
\* plus the counters of the transaction's next-ids file.
WriteFinalCurrent ==
  /\ finResult = "running"
  /\ finpc = Len(FinalOrder) + 1
  /\ finCurrent' =
       IF NoGlobalIds(finFormat)
         THEN [rev |-> finRev, next |-> NoStart]
         ELSE [rev |-> finRev,
               next |-> [node |-> AddKeys(finStart.node, finNextIds.node),
                         copy |-> AddKeys(finStart.copy, finNextIds.copy)]]
  /\ finResult' = "committed"
  /\ UNCHANGED <<finFormat, finRev, finStart, finNextIds, finTree, finNewId, finRevFile,
                 finpc>>
  /\ UNCHANGED finalFrame

FinalNext == WriteFinalRev \/ WriteFinalRevFail \/ WriteFinalCurrent

FinalSpec == FinalInit /\ [][FinalNext]_vars

\* ---- properties ----

\* The positions of commit_body between the freshness check and
\* write_final_current.
BeforeCurrent == {"c_moverev", "c_unlockproto", "c_moveprops", "c_current"}

\* C1: a commit that succeeds returns the revision one above the 'current'
\* it read under the write lock and leaves 'current' at that revision; over
\* any run of commits, failed commits and aborts 'current' never goes down
\* and never skips a number.
C1CurrentStepsByOne ==
  /\ [](\A w \in Workers :
          /\ pc[w] \in BeforeCurrent =>
               current = oldRev[w] /\ newRevP[w] = SVN_INVALID_REVNUM
          /\ (pc[w] \in {"c_purge", "c_unlock"} /\ newRevP[w] # SVN_INVALID_REVNUM) =>
               newRevP[w] = oldRev[w] + 1 /\ current = newRevP[w]
          /\ pc[w] = "c_repcache" =>
               newRevP[w] = oldRev[w] + 1 /\ current >= newRevP[w])
  /\ [][current' = current \/ current' = current + 1]_vars

\* C1: a second commit has succeeded and returns revision 2.
C1SecondCommitSucceeded ==
  \E w \in Workers : pc[w] = "c_repcache" /\ newRevP[w] = 2

C3OneWinnerPerBase ==
  /\ [](/\ \A r \in 1..current : RevFileExists(r) /\ txn[revFile[r]].base = r - 1
        /\ \A w \in Workers :
             /\ pc[w] \in BeforeCurrent => txn[wtxn[w]].base = current
             /\ (pc[w] = "c_unlock" /\ cerr[w] = "out_of_date") =>
                  /\ txn[wtxn[w]].base < current
                  /\ txn[revFile[txn[wtxn[w]].base + 1]].base = txn[wtxn[w]].base)
  /\ [][\A w \in Workers :
          (pc[w] = "c_body" /\ pc'[w] = "c_unlock" /\ cerr'[w] = "out_of_date") =>
            txn' = txn /\ current' = current]_vars

\* C3: two committers with the same base: one has published its
\* transaction and not yet returned, the other has just failed the
\* freshness check and its transaction directory exists.
C3LoserOutOfDate ==
  \E w1, w2 \in Workers :
    /\ w1 # w2
    /\ pc[w1] = "c_unlock" /\ cerr[w1] = "out_of_date" /\ txn[wtxn[w1]].dir
    /\ pc[w2] = "c_repcache" /\ wtxn[w2] # wtxn[w1]
    /\ txn[wtxn[w2]].base = txn[wtxn[w1]].base
    /\ revFile[newRevP[w2]] = wtxn[w2]

\* C4: every revision up to 'current' has its revision file and its
\* revision-property file, and a commit about to write 'current' has put
\* both files of its new revision in place.
C4FilesBeforeCurrent ==
  /\ \A r \in 0..current : RevFileExists(r) /\ RevpropFileExists(r)
  /\ \A w \in Workers :
       pc[w] = "c_current" =>
         revFile[NewRev(w)] = wtxn[w] /\ revpropFile[NewRev(w)] = wtxn[w]

\* C4: a commit has just written 'current' = 2.
C4CurrentWritten ==
  \E w \in Workers : pc[w] = "c_purge" /\ current = 2 /\ newRevP[w] = 2

\* C5: a process death leaves 'current' as it was and no lock in the dead
\* process's hands; the restarted process takes the number in 'current'
\* for the youngest revision, whatever files the dead commit left; and a
\* commit whose transaction files are present never fails to move them
\* into place, whatever a dead commit left at the destination.
C5DeathBeforeCurrent ==
  /\ [](\A w \in Workers :
          /\ pc[w] = "dead" => writeLock # w /\ \A t \in Txns : protoLock[t] # w
          /\ (pc[w] = "c_moverev" /\ txn[wtxn[w]].dir /\ txn[wtxn[w]].proto) =>
               ~MoveIntoPlaceFails(txn[wtxn[w]].proto, RevFileExists(RevFilenameRev(w)))
          /\ (pc[w] = "c_moveprops" /\ txn[wtxn[w]].props) =>
               ~MoveIntoPlaceFails(txn[wtxn[w]].props,
                                   RevpropFileExists(RevpropsFilenameRev(w))))
  /\ [][(\E p \in Procs : Crash(p)) => current' = current]_vars
  /\ [][\A w \in Workers :
          (pc[w] = "dead" /\ pc'[w] = "idle") =>
            current' = current /\ youngestRevCache'[w] = current]_vars

\* C5: a process died after its commit had moved the proto-rev file of t1
\* into place; while it is dead another process has committed a
\* transaction with the same base, over the leftover revision file.
C5CommittedOverLeftover ==
  \E w1, w2 \in Workers : \E t1 \in Txns :
    /\ pc[w1] = "dead"
    /\ txn[t1].dir /\ ~txn[t1].proto
    /\ pc[w2] = "c_repcache" /\ wtxn[w2] # t1
    /\ newRevP[w2] = txn[t1].base + 1
    /\ revFile[newRevP[w2]] = wtxn[w2]

\* C6: when commit returns after a failure between get_writable_proto_rev
\* and unlock_proto_rev, the being_written flag of its transaction is
\* clear and its handle no longer holds the proto-rev file lock.
C6FailedCommitReleasesProtoLock ==
  [][\A w \in Workers :
       (pc[w] = "c_unlock" /\ cookie[w] /\ pc'[w] = "idle") =>
         /\ wtxn[w] \notin beingWritten'[procOf[w]]
         /\ protoLock'[wtxn[w]] # w]_vars

C8WriteLockReleasedOnReturn ==
  \A w \in Workers :
    pc[w] \in {"idle", "writing", "w_failed", "c_repcache", "dead"} =>
      ~hasWriteLock[w] /\ writeLock # w

C10PublishedRevFilesImmutable ==
  [][\A r \in Revs : revFile'[r] # revFile[r] => r = current + 1]_vars

\* C10: with revision 1 published, a commit has moved its proto-rev file to
\* revision 2.
C10NextRevFileWritten ==
  \E w \in Workers :
    pc[w] = "c_unlockproto" /\ current = 1 /\ revFile[2] = wtxn[w] /\ revFile[1] # wtxn[w]

\* C11, as the specification states it: whenever commit is about to return
\* an error and the proto-rev file of its transaction has been moved to the
\* new revision's file, the revision reported to the caller is the new
\* revision and 'current' names it.
C11FailureAfterMoveReportsNewRev ==
  \A w \in Workers :
    (/\ pc[w] = "c_unlock" /\ cerr[w] # "ok"
     /\ revFile[NewRev(w)] = wtxn[w] /\ ~txn[wtxn[w]].proto) =>
      newRevP[w] = NewRev(w) /\ current = NewRev(w)

\* C11, amended: once write_final_current has been passed the revision
\* reported to the caller is the new revision, 'current' names it and both
\* its files are in place, whether or not an error is returned; a failing
\* purge and the rep-cache step change neither 'current' nor a revision
\* file nor the reported revision; a step that fails after the move of the
\* proto-rev file and before 'current' is written reports no revision and
\* leaves 'current' as it was.
C11FailureAfterCurrentReportsNewRev ==
  /\ [](\A w \in Workers :
          /\ pc[w] = "c_purge" =>
               /\ newRevP[w] = NewRev(w) /\ current = NewRev(w)
               /\ revFile[NewRev(w)] = wtxn[w] /\ revpropFile[NewRev(w)] = wtxn[w]
          /\ (pc[w] = "c_unlock" /\ newRevP[w] # SVN_INVALID_REVNUM) =>
               /\ newRevP[w] = NewRev(w) /\ current = NewRev(w)
               /\ revFile[NewRev(w)] = wtxn[w] /\ revpropFile[NewRev(w)] = wtxn[w])
  /\ [][\A w \in Workers :
          /\ (pc[w] = "c_purge" /\ pc'[w] = "c_unlock") =>
               /\ current' = current /\ newRevP' = newRevP
               /\ revFile' = revFile /\ revpropFile' = revpropFile
               /\ (faults' # faults => cerr'[w] # "ok")
          /\ (pc[w] = "c_repcache" /\ pc'[w] = "idle") =>
               current' = current /\ revFile' = revFile /\ revpropFile' = revpropFile
          /\ (/\ pc[w] \in {"c_unlockproto", "c_moveprops", "c_current"}
              /\ pc'[w] = "c_unlock") =>
               current' = current /\ newRevP'[w] = SVN_INVALID_REVNUM]_vars

\* C11: the purge of the transaction failed on an injected error after
\* 'current' was written; the commit is about to return that error with
\* the new revision reported.
C11PurgeFailedAfterCurrent ==
  \E w \in Workers :
    /\ pc[w] = "c_unlock" /\ cerr[w] = "error" /\ faults = 1
    /\ newRevP[w] = NewRev(w) /\ current = NewRev(w)

\* C12: the root node-revision of every committed revision R > 0 has a
\* predecessor count one above that of the root of R - 1, hence R; the
\* root of every transaction has a count one above that of the root of its
\* base revision; and validate_root_noderev never finds fault with the root
\* of a transaction that got past the freshness check.
C12RootPredecessorCount ==
  /\ \A r \in 1..current :
       /\ RootPredecessorCount(r) = RootPredecessorCount(r - 1) + 1
       /\ RootPredecessorCount(r) = r
  /\ \A t \in Txns :
       txn[t].dir => txn[t].rootCount = RootPredecessorCount(txn[t].base) + 1
  /\ \A w \in Workers :
       pc[w] = "c_moverev" => ~ValidateRootNoderevFails(txn[wtxn[w]].rootCount, NewRev(w))

\* C12: revision 2 is committed, from a transaction begun on revision 1
\* whose root was copied from the root of revision 1.
C12SecondRootPublished ==
  /\ current = 2 /\ txn[revFile[2]].base = 1
  /\ RootPredecessorCount(1) = 1 /\ RootPredecessorCount(2) = 2

\* C13: the base choose_delta_base picks for the next representation is
\* taken from a predecessor, one with a smaller predecessor count, and is a
\* representation written in an earlier revision than the one being
\* committed; every delta in a revision file has its base in a lower
\* revision, so the chain of bases from any representation ends after at
\* most as many steps as there are revisions.
C13DeltaBaseStrictlyEarlier ==
  /\ \A r \in 1..Len(reps) :
       reps[r].type = "delta" =>
         /\ reps[r].base \in 1..(r - 1)
         /\ reps[reps[r].base].type # "none"
  /\ \A r \in 1..Len(reps) : reps[r].type # "none" => RepChainLength(r) <= r
  /\ LET pcount == Len(nodeRevs)
         count == DeltaBaseCount(pcount, maxLinearDeltification)
         base == ChooseDeltaBase(TxnLine, pcount, maxLinearDeltification,
                                 maxDeltificationWalk)
     IN pcount > 0 =>
          /\ 0 <= count /\ count < pcount
          /\ base # NoRep =>
               /\ base = nodeRevs[count + 1].repRev
               /\ base <= nodeRevs[count + 1].rev
               /\ base < pcount + 1

\* C13: with max-linear-deltification = 2 the representation of the
\* node-revision with predecessor count 3 is a delta against its
\* predecessor's and that of the one with count 4 a skip-delta against the
\* origin's.
C13SkipDeltaWritten ==
  /\ maxLinearDeltification = 2
  /\ Len(reps) >= 5
  /\ reps[4].type = "delta" /\ reps[4].base = 3
  /\ reps[5].type = "delta" /\ reps[5].base = 1

\* C14, as the specification states it: with the default configuration the
\* representation written for the node-revision with predecessor count 16
\* is a delta against the representation of its immediate predecessor.
C14SeventeenthAgainstPredecessor ==
  (/\ maxLinearDeltification = 16
   /\ maxDeltificationWalk = SVN_FS_FS_MAX_DELTIFICATION_WALK
   /\ Len(nodeRevs) >= 17 /\ nodeRevs[17].repRev = 17) =>
    reps[17].type = "delta" /\ reps[17].base = nodeRevs[16].repRev

\* C14, amended: with the default configuration the representation written
\* for the node-revision with predecessor count 16 is a delta against the
\* representation of the origin (predecessor count 0), the distance 16 not
\* being less than 16; the representations written for predecessor counts
\* 1 to 15 are deltas against the immediate predecessor's.
C14SeventeenthAgainstOrigin ==
  (/\ maxLinearDeltification = 16
   /\ maxDeltificationWalk = SVN_FS_FS_MAX_DELTIFICATION_WALK) =>
    \A n \in 2..Len(nodeRevs) :
      nodeRevs[n].repRev = n =>
        /\ reps[n].type = "delta"
        /\ n = 17 => reps[n].base = nodeRevs[1].repRev
        /\ n < 17 => reps[n].base = nodeRevs[n - 1].repRev

\* C14: sixteen changes of the file are committed under the default
\* configuration, each with a representation of its own.
C14SeventeenCommits ==
  /\ maxLinearDeltification = 16
  /\ maxDeltificationWalk = SVN_FS_FS_MAX_DELTIFICATION_WALK
  /\ Len(nodeRevs) = 17
  /\ \A n \in 1..17 : nodeRevs[n].repRev = n

StartsWith(path, prefix) ==
  Len(path) >= Len(prefix) /\ SubSeq(path, 1, Len(prefix)) = prefix

\* C16: when a delete record is folded for a path whose recorded change is
\* the add of the same node-revision, the fold succeeds and no change is
\* recorded for that path any more, neither in the hash nor in the list the
\* fetch hands back; folded from a transaction's changes file, no change
\* is recorded for any path below it either.
C16AddThenDeleteLeavesNothing ==
  \A p \in Paths :
    (/\ lastChange.path = p /\ lastChange.kind = "delete"
     /\ prevPaths[p].kind = "add" /\ prevPaths[p].id = lastChange.id) =>
      /\ foldErr = "none"
      /\ changedPaths[p] = NoChange
      /\ changedPathsP.set => changedPathsP.paths = changedPaths
      /\ ~prefolded =>
           \A q \in Paths : StartsWith(q, Append(p, "/")) => changedPaths[q] = NoChange

\* C16: add /d, add /d/f, delete /d were folded from a transaction's
\* changes file and the list handed back is empty.
C16DirectoryAndFileCancelled ==
  /\ ~prefolded /\ folded = MaxChanges
  /\ prevPaths[<<"/", "d">>].kind = "add"
  /\ prevPaths[<<"/", "d", "/", "f">>].kind = "add"
  /\ prevPaths[<<"/", "d", "f">>] = NoChange
  /\ lastChange.path = <<"/", "d">> /\ lastChange.kind = "delete"
  /\ changedPathsP.set
  /\ \A q \in Paths : changedPathsP.paths[q] = NoChange

\* C17: when an add record is folded for a path whose recorded change is a
\* delete, the fold succeeds and the one change recorded for the path is a
\* replace with the node-revision id, the flags and the copyfrom of the add.
C17DeleteThenAddIsReplace ==
  \A p \in Paths :
    (/\ lastChange.path = p /\ lastChange.kind = "add"
     /\ prevPaths[p].kind = "delete") =>
      /\ foldErr = "none"
      /\ changedPaths[p] =
           [kind |-> "replace", id |-> lastChange.id,
            textMod |-> lastChange.textMod, propMod |-> lastChange.propMod,
            copyfrom |-> lastChange.copyfrom]

\* C17: a delete of /d and then an add of /d as a copy, with another
\* node-revision id, were folded; /d is a replace with the id and the copy
\* source of the add.
C17ReplacedByCopy ==
  /\ folded = 2
  /\ prevPaths[<<"/", "d">>].kind = "delete" /\ prevPaths[<<"/", "d">>].id = "n1"
  /\ lastChange.path = <<"/", "d">> /\ lastChange.kind = "add"
  /\ lastChange.id = "n2" /\ lastChange.copyfrom # NoCopyfrom
  /\ changedPaths[<<"/", "d">>].kind = "replace"
  /\ changedPaths[<<"/", "d">>].id = "n2"
  /\ changedPaths[<<"/", "d">>].copyfrom = lastChange.copyfrom

\* C18: when a delete or replace record for P is folded with success from
\* a transaction's changes file, no change is recorded any more for a path
\* that starts with P and a separator, and the change recorded for every
\* other path but P is what it was.
C18ChildrenRemovedOthersKept ==
  (/\ ~prefolded /\ foldErr = "none"
   /\ lastChange.kind \in {"delete", "replace"}) =>
    \A q \in Paths :
      IF StartsWith(q, Append(lastChange.path, "/"))
        THEN changedPaths[q] = NoChange
        ELSE q # lastChange.path => changedPaths[q] = prevPaths[q]

\* C18: changes were recorded for /d/f and for /df when a replace of /d
\* was folded; the one for /d/f is gone and the one for /df is kept.
C18ChildGoneSiblingKept ==
  /\ ~prefolded /\ foldErr = "none"
  /\ lastChange.path = <<"/", "d">> /\ lastChange.kind = "replace"
  /\ prevPaths[<<"/", "d", "/", "f">>] # NoChange
  /\ prevPaths[<<"/", "d", "f">>] # NoChange
  /\ changedPaths[<<"/", "d", "/", "f">>] = NoChange
  /\ changedPaths[<<"/", "d", "f">>] = prevPaths[<<"/", "d", "f">>]

\* C19: when an add record is folded for a path whose recorded change is
\* neither a delete nor a reset, the fold fails with corrupt, the hash is
\* left as it was and no list is handed to the caller.
C19AddOnPreexistingIsCorrupt ==
  \A p \in Paths :
    (/\ lastChange.path = p /\ lastChange.kind = "add"
     /\ prevPaths[p] # NoChange
     /\ prevPaths[p].kind \notin {"delete", "reset"}) =>
      /\ foldErr = "corrupt"
      /\ changedPaths = prevPaths
      /\ ~changedPathsP.set

\* C19: an add of /d with the node-revision id of the change recorded for
\* it, a modify, has failed.
C19AddAfterModifyFailed ==
  /\ prevPaths[<<"/", "d">>].kind = "modify"
  /\ lastChange.path = <<"/", "d">> /\ lastChange.kind = "add"
  /\ lastChange.id = prevPaths[<<"/", "d">>].id
  /\ foldErr = "corrupt"

\* C20: when a modify record is folded with success into the change
\* recorded for its path, the change keeps its kind, its id and its
\* copyfrom, and each of its two flags is the OR of what it was and the
\* flag of the record; and folding the same record once more, into an
\* existing change or one it has just made, succeeds and changes nothing.
C20ModifyOrsFlags ==
  \A p \in Paths :
    (lastChange.path = p /\ lastChange.kind = "modify" /\ foldErr = "none") =>
      /\ prevPaths[p] # NoChange =>
           changedPaths[p] =
             [prevPaths[p] EXCEPT
                !.textMod = prevPaths[p].textMod \/ lastChange.textMod,
                !.propMod = prevPaths[p].propMod \/ lastChange.propMod]
      /\ FoldChange(changedPaths[p], lastChange) =
           [err |-> FALSE, change |-> changedPaths[p]]

\* C20: /d was added and its text modified; a modify of its properties was
\* folded and /d is an add with both flags set.
C20AddWithBothFlags ==
  /\ prevPaths[<<"/", "d">>].kind = "add"
  /\ prevPaths[<<"/", "d">>].textMod /\ ~prevPaths[<<"/", "d">>].propMod
  /\ lastChange.path = <<"/", "d">> /\ lastChange.kind = "modify"
  /\ lastChange.propMod /\ ~lastChange.textMod
  /\ foldErr = "none"
  /\ changedPaths[<<"/", "d">>].kind = "add"
  /\ changedPaths[<<"/", "d">>].textMod /\ changedPaths[<<"/", "d">>].propMod

\* C21: after a successful hotcopy from a source whose youngest revision
\* was R when the copy started, the destination has the source's UUID,
\* 'current' = R, and the revision data and revision properties of
\* 0..R, with the source's content.
C21HotcopyIsFaithful ==
  hotResult = "ok" =>
    /\ dst.uuid = "src"
    /\ dst.current = hc.src_youngest
    /\ \A r \in 0..hc.src_youngest :
         RevPresent(dst, r) /\ RevpropPresent(dst, r) /\ r \notin dst.staleRevprops

\* C22: a hotcopy never returns success with a revision at or below the
\* destination's 'current' missing from the destination.
C22SuccessLeavesNoRevisionMissing ==
  hotResult = "ok" => MissingRevs(dst) = {}

\* C23: at every cancellation point of a hotcopy a destination that
\* readers can open (it has its format file) is usable at its 'current':
\* each revision up to it is at the place the destination's
\* min-unpacked-rev says.
C23UsableAtEveryCancellationPoint ==
  (hpc \in CancelPoints /\ dst.format) => MissingRevs(dst) = {}

\* C24: during upgrade the format file is rewritten to the new format
\* number only after every artifact the new format requires exists (the
\* config file, txn-current and its lock, the txn-protorevs directory,
\* the min-unpacked-rev file, the packed revprops), so at every step
\* before that, where a crash may happen, the format file holds the old
\* number.
C24FormatFileIsWrittenLast ==
  /\ [][up'.formatFile # up.formatFile =>
          /\ HasNewFormatArtifacts(up)
          /\ up'.formatFile = SVN_FS_FS__FORMAT_NUMBER]_vars
  /\ [](~HasNewFormatArtifacts(up) /\ upc \notin {"u_start", "u_done"}
          => up.formatFile = up.format)

C24BumpedWithRevpropsPacked ==
  /\ upc = "u_notify"
  /\ up.format = SVN_FS_FS__MIN_PACKED_FORMAT
  /\ up.formatFile = SVN_FS_FS__FORMAT_NUMBER
  /\ up.packedShards = MaxPackedShards

\* C25 as stated: if the cancellation callback stops an upgrade, the
\* format file still holds the old format number.
C25CancelledUpgradeLeavesOldFormat ==
  upResult = "cancelled" => up.formatFile = up.format

\* C25, amended: if the cancellation callback stops an upgrade while the
\* revision properties are packed, the format file still holds the old
\* format number; if it stops the upgrade during the cleanup of the
\* redundant revprop files, the format file holds the new number already,
\* and everything the new format requires exists.
C25CancelledBeforeBumpLeavesOldFormat ==
  upResult = "cancelled" =>
    /\ upc = "u_pack_revprops" => up.formatFile = up.format
    /\ upc = "u_cleanup" =>
         /\ up.formatFile = SVN_FS_FS__FORMAT_NUMBER
         /\ HasNewFormatArtifacts(up)
    /\ upc \in {"u_pack_revprops", "u_cleanup"}

C25CancelledWhilePacking ==
  /\ upResult = "cancelled" /\ upc = "u_pack_revprops"
  /\ up.shard = 1 /\ up.revpropPacks = 1 /\ up.packedShards = MaxPackedShards

\* C26: no two begin-transaction calls ever return the same transaction
\* id, whether they run concurrently in several threads or processes or
\* one after the other with the earlier transaction already purged: only
\* one call at a time is between its read and its write of the counter,
\* and holds the allocator lock then.
C26TransactionIdsAreUnique ==
  /\ \A i, j \in 1..Len(returned) : i # j => returned[i] # returned[j]
  /\ \A v, w \in Workers :
       (idc[v] \in {"i_read", "i_write", "i_unlock"}
          /\ idc[w] \in {"i_read", "i_write", "i_unlock"}) => v = w
  /\ \A w \in Workers :
       idc[w] \in {"i_read", "i_write", "i_unlock"} =>
         w \in txnCurrentFlock /\ txnCurrentLock[procOf[w]] = w

C26IdsReturnedAfterPurge ==
  /\ Len(returned) = MaxBegins
  /\ returned[1] \notin txnDirs
  /\ returned[1][1] = returned[MaxBegins][1]

\* C27 as stated: after a successful commit or an abort of transaction T,
\* T's scratch directory, proto-revision file, proto-revision lock file
\* and shared transaction object (in the process that committed or
\* aborted) no longer exist, and opening T fails with
\* no-such-transaction.
C27PurgedTransactionIsGone ==
  \A w \in Workers :
    tres[w] \in {"committed", "aborted"} =>
      /\ ~txnFiles.dir /\ ~txnFiles.proto /\ ~txnFiles.lock
      /\ SharedTxnOf(w) = "none"
      /\ OpenTxnResult = "no_such_transaction"

\* C27, amended: after a successful commit or an abort of T, T's scratch
\* directory and proto-revision file no longer exist and opening T fails
\* with no-such-transaction; the proto-revision lock file and the shared
\* transaction object are gone as well unless a write to T or another
\* commit of T was attempted, through a handle opened before, once the
\* purge had begun.
C27PurgedTransactionIsGoneUnlessWritten ==
  \A w \in Workers :
    tres[w] \in {"committed", "aborted"} =>
      /\ ~txnFiles.dir /\ ~txnFiles.proto
      /\ OpenTxnResult = "no_such_transaction"
      /\ raced # "late" => ~txnFiles.lock /\ SharedTxnOf(w) = "none"

C27CommittedAfterAWrite ==
  /\ tres["w1"] = "committed" /\ tres["w2"] = "written"
  /\ raced = "purging"

\* C28 as stated: of two revision-property changes racing with the same
\* expected value, which is the stored one, and different new values,
\* exactly one is applied (no call failing for another reason).
C28ExactlyOneOfTwoRacingChangesApplied ==
  \A old \in PropValues \cup {Absent} :
    (/\ BothChanged(old)
     /\ revpropInit = old
     /\ cbValue["w1"] # cbValue["w2"]
     /\ \A w \in Workers : rpRes[w] # "error")
      => Cardinality(Applied) = 1

\* C28, amended: a revision-property change that supplies an expected old
\* value is applied only if the stored value equals the expected one while
\* the write lock is held; otherwise it fails with prop-basevalue-mismatch
\* and the stored value is unchanged; so of two such changes racing with
\* the same expected value and new values that both differ from the
\* expected one at most one is applied, and exactly one if the stored
\* value was the expected one and no call fails for another reason.
C28ChangeAppliedOnlyOnExpectedValue ==
  /\ [](\A w \in Workers :
          /\ rpc[w] \in InBody => w \in rpFlock /\ rpMutex[procOf[w]] = w
          /\ rpc[w] = "r_write" => revprop = presentValue[w]
          /\ (rpRes[w] = "applied" \/ rpc[w] = "r_write") /\ cbOldValue[w] # AnyValue
               => ~BaseValueMismatch(cbOldValue[w], presentValue[w])
          /\ rpRes[w] = "prop_basevalue_mismatch"
               => BaseValueMismatch(cbOldValue[w], presentValue[w]))
  /\ [][\A w \in Workers :
          rpRes'[w] = "prop_basevalue_mismatch" /\ rpRes[w] = "none"
            => revprop' = revprop]_vars
  /\ [](\A old \in PropValues \cup {Absent} :
          (BothChanged(old) /\ \A w \in Workers : cbValue[w] # old) =>
            /\ Cardinality(Applied) <= 1
            /\ (revpropInit = old /\ \A w \in Workers : rpRes[w] # "error")
                 => Cardinality(Applied) = 1)

C28OneAppliedOneMismatch ==
  /\ BothChanged("a") /\ revpropInit = "a"
  /\ cbValue["w1"] = "b" /\ cbValue["w2"] = Absent
  /\ rpRes["w1"] = "prop_basevalue_mismatch" /\ rpRes["w2"] = "applied"
  /\ revprop = Absent

\* C29: in a cache created with room for one entry, a lookup of a key that
\* was never set reports not found, a lookup of the key set last reports
\* found with the value set, and a lookup of a key set before another key
\* was set reports not found.
C29OneEntryCacheHoldsTheLastSet ==
  (CacheRoom(cachePages, cacheItems) = 1 /\ got.key # "") =>
     /\ got.key \notin everSet => ~got.found
     /\ got.key = lastSet.key => got.found /\ got.value = lastSet.value
     /\ (lastSet.key # "" /\ got.key # lastSet.key) => ~got.found

\* a key that was set and then displaced by another key is looked up
C29FirstKeyExpired ==
  /\ CacheRoom(cachePages, cacheItems) = 1
  /\ got.key \in everSet
  /\ lastSet.key # got.key
  /\ ~got.found

\* the node-revisions of the file, as far as the one with predecessor count
\* pcount had them for predecessors, with that one at the young end
LineOf(pcount) ==
  Append(SubSeq(nodeRevs, 1, pcount),
         [rev |-> SVN_INVALID_REVNUM,
          repRev |-> IF pcount = 0 THEN NoRep ELSE nodeRevs[pcount].repRev])

\* The walk from the node-revision with predecessor count pcount back to the
\* one with count target met a shared representation, and the chain of the
\* representation found there has reached the limit.
ChainTooLong(pcount, target) ==
  /\ MaybeSharedRep(LineOf(pcount), target, pcount)
  /\ RepChainLength(nodeRevs[target + 1].repRev) >= 2 * maxLinearDeltification + 2

\* the node-revisions with a representation of their own, by predecessor count
OwnRep == {n \in 0..(Len(nodeRevs) - 1) : nodeRevs[n + 1].repRev = n + 1}

\* C30, as the specification states it: for predecessor count n and
\* d = n - (n & (n - 1)) there is no base if n = 0 or d exceeds
\* max-deltification-walk; otherwise the base is the representation of the
\* predecessor with count n - 1 if d < max-linear-deltification and of the
\* one with count n & (n - 1) if not; no more than max-deltification-walk
\* predecessors are walked.
C30DeltaBaseAsStated ==
  \A n \in OwnRep :
    LET d == n - BitAnd(n, n - 1)
        r == reps[n + 1]
    IN /\ (n = 0 \/ d > maxDeltificationWalk) => r.type = "self-delta"
       /\ (n # 0 /\ d <= maxDeltificationWalk /\ d < maxLinearDeltification) =>
            r.type = "delta" /\ r.base = nodeRevs[n].repRev
       /\ (n # 0 /\ d <= maxDeltificationWalk /\ d >= maxLinearDeltification) =>
            r.type = "delta" /\ r.base = nodeRevs[BitAnd(n, n - 1) + 1].repRev
       /\ PredecessorsWalked(n, maxLinearDeltification, maxDeltificationWalk)
            <= maxDeltificationWalk

\* C30, amended: for predecessor count n and d = n - (n & (n - 1)) there is
\* no base if n = 0 or d exceeds max-deltification-walk; otherwise, with
\* the target n - 1 if d < max-linear-deltification and n & (n - 1) if not,
\* there is no base either if a node-revision walked over holds a
\* representation older than itself and the delta chain of the target's
\* representation has 2 * max-linear-deltification + 2 members or more, and
\* else the base is the target's representation; no more than
\* max-deltification-walk predecessors are walked.
C30DeltaBaseUnlessChainTooLong ==
  \A n \in OwnRep :
    LET d == n - BitAnd(n, n - 1)
        target == IF d < maxLinearDeltification THEN n - 1 ELSE BitAnd(n, n - 1)
        r == reps[n + 1]
    IN /\ (n = 0 \/ d > maxDeltificationWalk) => r.type = "self-delta"
       /\ (n # 0 /\ d <= maxDeltificationWalk) =>
            IF ChainTooLong(n, target)
              THEN r.type = "self-delta"
              ELSE r.type = "delta" /\ r.base = nodeRevs[target + 1].repRev
       /\ PredecessorsWalked(n, maxLinearDeltification, maxDeltificationWalk)
            <= maxDeltificationWalk

\* C30: contents were written without a base because of the walk limit, and
\* later ones because the chain behind a shared representation was too long
C30BothLimitsReached ==
  /\ \E n \in OwnRep :
       /\ n # 0 /\ n - BitAnd(n, n - 1) > maxDeltificationWalk
       /\ reps[n + 1].type = "self-delta"
  /\ \E n \in OwnRep :
       /\ n # 0 /\ n - BitAnd(n, n - 1) <= maxDeltificationWalk
       /\ ChainTooLong(n, IF n - BitAnd(n, n - 1) < maxLinearDeltification
                            THEN n - 1 ELSE BitAnd(n, n - 1))
       /\ reps[n + 1].type = "self-delta"

\* the predecessor count of the node-revision whose representation
\* choose_delta_base settles on for the one with predecessor count n
TargetCount(n) ==
  IF n - BitAnd(n, n - 1) < maxLinearDeltification THEN n - 1 ELSE BitAnd(n, n - 1)

\* the node-revisions with a representation of their own whose walk back to
\* the delta base was made and met a shared representation
SharedMet ==
  {n \in OwnRep : /\ n # 0
                  /\ n - BitAnd(n, n - 1) <= maxDeltificationWalk
                  /\ MaybeSharedRep(LineOf(n), TargetCount(n), n)}

\* C31, as the specification states it: when a shared representation was
\* met on the walk, the base is abandoned exactly when its delta chain is
\* longer than 2 * max-linear-deltification + 2.
C31AbandonedWhenChainExceedsLimit ==
  \A n \in SharedMet :
    reps[n + 1].type = "self-delta" <=>
      RepChainLength(nodeRevs[TargetCount(n) + 1].repRev)
        > 2 * maxLinearDeltification + 2

\* C31, amended: when a shared representation was met on the walk, the base
\* is abandoned exactly when its delta chain has 2 * max-linear-deltification
\* + 2 members or more; a base whose chain has at most
\* 2 * max-linear-deltification + 1 members is kept.
C31AbandonedWhenChainReachesLimit ==
  \A n \in SharedMet :
    LET chain == RepChainLength(nodeRevs[TargetCount(n) + 1].repRev)
    IN /\ chain >= 2 * maxLinearDeltification + 2 => reps[n + 1].type = "self-delta"
       /\ chain <= 2 * maxLinearDeltification + 1 =>
            /\ reps[n + 1].type = "delta"
            /\ reps[n + 1].base = nodeRevs[TargetCount(n) + 1].repRev

\* C31: a base with a chain of exactly 2 * max-linear-deltification + 2
\* members was abandoned
C31ChainAtLimit ==
  \E n \in SharedMet :
    /\ RepChainLength(nodeRevs[TargetCount(n) + 1].repRev)
         = 2 * maxLinearDeltification + 2
    /\ reps[n + 1].type = "self-delta"

\* the place of a store in the specification's order of the tiers
SpecRank(tier) == IF tier = "hash" THEN 1 ELSE IF tier = "file" THEN 2 ELSE 3

\* the place of a store in the order get_shared_rep goes through them
CodeRank(tier) == IF tier = "hash" THEN 1 ELSE IF tier = "db" THEN 2 ELSE 3

\* the stores consulted
Consulted == {lkTiers[i] : i \in 1..Len(lkTiers)}

\* C32, as the specification states it: the in-transaction hash is consulted
\* first, then the sidecar file, and the index only if both found nothing; a
\* match in an earlier tier is returned without consulting a later tier.
C32HashThenFileThenIndex ==
  /\ \A i, j \in 1..Len(lkTiers) : i < j => SpecRank(lkTiers[i]) < SpecRank(lkTiers[j])
  /\ "db" \in Consulted => ~lk.inHash /\ ~lk.inFile
  /\ "file" \in Consulted => ~lk.inHash

\* C32, amended: the in-transaction hash is consulted first, then the index,
\* and the sidecar file only if both found nothing; a match in an earlier
\* tier is returned without consulting a later tier.
C32HashThenIndexThenFile ==
  /\ \A i, j \in 1..Len(lkTiers) : i < j => CodeRank(lkTiers[i]) < CodeRank(lkTiers[j])
  /\ "db" \in Consulted => ~lk.inHash
  /\ "file" \in Consulted => ~lk.inHash /\ lk.db \in {"miss", "other"}
  /\ (lkpc = "done" /\ lkErr = "none") =>
       /\ (lk.allowed /\ lk.inHash) => lkOld = "hash" /\ lkTiers = <<"hash">>
       /\ (lk.allowed /\ ~lk.inHash /\ lk.db = "hit") =>
            lkOld = "db" /\ "file" \notin Consulted
       /\ (lk.allowed /\ ~lk.inHash /\ lk.db # "hit" /\ lk.inFile) =>
            lkOld = "file" /\ "db" \in Consulted

\* C32: the hash and the index held nothing and the sidecar file did
C32FoundInSidecarFile ==
  /\ lkpc = "done"
  /\ lkTiers = <<"hash", "db", "file">>
  /\ lk.db = "miss"
  /\ lkOld = "file"

\* C33, as the specification states it: with rep-sharing enabled an index
\* lookup that fails with corrupt makes the write fail with that error; any
\* other error of the lookup is only warned about, and the write stores its
\* new representation without sharing.
C33OtherLookupErrorsOnlyWarn ==
  (lkpc = "done" /\ lk.allowed /\ "db" \in Consulted) =>
     /\ lk.db = "corrupt" => lkWrite = "failed" /\ lkErr = "corrupt"
     /\ lk.db \in {"malfunction", "other"} => lkWarned /\ lkWrite = "new"

\* C33, amended: with rep-sharing enabled an index lookup that fails with
\* corrupt or with an error of the malfunction category makes the write
\* fail with that error; any other error of the lookup is only warned about
\* and the index counts as holding nothing: the write shares the
\* representation of the transaction's sidecar file if there is one and
\* stores its new representation if not.
C33FatalLookupErrorsFailTheWrite ==
  (lkpc = "done" /\ lk.allowed /\ "db" \in Consulted) =>
     /\ lk.db \in {"corrupt", "malfunction"} =>
          lkWrite = "failed" /\ lkErr = lk.db /\ ~lkWarned
     /\ lk.db = "other" =>
          /\ lkWarned /\ lkErr = "none"
          /\ lkWrite = IF lk.inFile THEN "shared" ELSE "new"
          /\ lk.inFile => lkOld = "file"

\* C33: the lookup was warned about and the write shared the
\* representation of the sidecar file
C33WarnedAndSharedFromFile ==
  /\ lkpc = "done"
  /\ lk.db = "other" /\ lkWarned
  /\ lkWrite = "shared"

\* C34: every row of the rep-sharing index names a revision that 'current'
\* has reached; a step that adds rows adds them for a revision 'current'
\* had reached before the step, keeps every row there was and adds none
\* for a SHA-1 the index held; and a step of svn_fs_fs__commit after the
\* write lock was given back, failing or not, leaves 'current' as it is.
C34IndexNamesPublishedRevisions ==
  /\ [](\A e \in repCacheDb : e.revision <= current)
  /\ [][/\ repCacheDb \subseteq repCacheDb'
        /\ \A e \in repCacheDb' \ repCacheDb :
             /\ e.revision <= current
             /\ \A o \in repCacheDb : o.sha1 # e.sha1
        /\ \A w \in Workers :
             (pc[w] = "c_repcache" /\ pc'[w] = "idle") =>
               /\ current' = current
               /\ current >= NewRev(w)
               /\ faults' # faults => repCacheDb' = repCacheDb]_vars

\* C34: two commits went through and the index holds rows of both revisions
C34RowsOfTwoRevisions ==
  /\ current = 2
  /\ \E e, o \in repCacheDb : e.revision = 1 /\ o.revision = 2

\* the thread whose handle holds the lock on the write-lock file while the
\* thread W waits for that lock in get_lock_on_filesystem, or NoW
WaitsFor(w) == IF pc[w] = "c_flock" THEN writeLock ELSE NoW

C36UpgradeAgainCompletes ==
  (up.runs > 1 /\ ~up.lateStop /\ up.format # SVN_FS_FS__FORMAT_NUMBER) =>
     /\ upResult # "eexist"
     /\ (upResult = "ok" /\ upc = "u_done") =>
          /\ up.formatFile = SVN_FS_FS__FORMAT_NUMBER
          /\ HasNewFormatArtifacts(up)
          /\ up.unpackedRevprops = 0

C38FlagSetExactlyWhileLockHeld ==
  /\ \A p \in Procs : \A t \in Txns :
       t \in beingWritten[p] <=> (\E w \in Workers : procOf[w] = p /\ protoLock[t] = w)
  /\ \A w \in Workers : pc[w] = "idle" => \A t \in Txns : protoLock[t] # w

\* the id a path's node-revision has in the new revision
FinalIdOf(n) == IF finRevFile[n] # NotWritten THEN finRevFile[n].id ELSE finTree[n].id

\* a key write_final_rev made of the transaction's key K, in the form the
\* format gives it
MintedAsStated(k, final, start) ==
  IF NoGlobalIds(finFormat) THEN final = Key(FALSE, k.val, finRev)
  ELSE final = PlainKey(start + k.val)

\* the keys earlier revisions can hold: below the start id with global
\* ids; else with the suffix of an earlier revision, or without a suffix
\* (revision 0, and revisions written before the store was upgraded)
EarlierKeys(start) ==
  IF NoGlobalIds(finFormat)
    THEN {PlainKey(v) : v \in 0..(MaxStart + MaxLocal)}
         \cup {Key(FALSE, v, r) : v \in 0..MaxLocal, r \in 1..(finRev - 1)}
    ELSE {PlainKey(v) : v \in 0..(start - 1)}

\* C39: after a commit of revision R every node-revision of the
\* transaction reachable from its root is written with an id located in R
\* whose node id and copy id have no '_' prefix, a key allocated in the
\* transaction having become "<local>-<R>" or the start id plus the local
\* value; no such new key is a key of an earlier revision (and, with global
\* ids, each lies below the next ids written to 'current'); and every entry
\* of a directory written in R names the id its child has in R.
C39FinalIdsArePermanentAndNew ==
  finResult = "committed" =>
    /\ \A n \in FinalNodes :
         finTree[n].state = "txn" =>
           LET old == finTree[n].id
               new == finRevFile[n].id
           IN /\ finRevFile[n] # NotWritten
              /\ new.rev = finRev /\ ~new.txn_id
              /\ ~new.node_id.fresh /\ ~new.copy_id.fresh
              /\ IF old.node_id.fresh
                   THEN /\ MintedAsStated(old.node_id, new.node_id, finStart.node)
                        /\ new.node_id \notin EarlierKeys(finStart.node)
                        /\ NoGlobalIds(finFormat) \/ new.node_id.val < finCurrent.next.node
                   ELSE new.node_id = old.node_id
              /\ IF old.copy_id.fresh
                   THEN /\ MintedAsStated(old.copy_id, new.copy_id, finStart.copy)
                        /\ new.copy_id \notin EarlierKeys(finStart.copy)
                        /\ NoGlobalIds(finFormat) \/ new.copy_id.val < finCurrent.next.copy
                   ELSE new.copy_id = old.copy_id
    /\ \A d \in FinalDirs : \A c \in DOMAIN finRevFile[d].entries :
         finRevFile[d].entries[c] = FinalIdOf(c)

\* C39: a commit with global ids is through; it wrote the new file "g" in
\* the directory "a", which got a new copy id, next to the file "f" of an
\* earlier revision.
C39NewFileInCopiedDirectory ==
  /\ finResult = "committed"
  /\ ~NoGlobalIds(finFormat)
  /\ finTree["g"].state = "txn" /\ finTree["g"].id.node_id.fresh
  /\ finTree["a"].state = "txn" /\ finTree["a"].id.copy_id.fresh
  /\ finTree["f"].state = "rev"
  /\ finRevFile["root"].entries["a"] = finRevFile["a"].id

RECURSIVE OneBits(_)
\* the number of 1-bits of n
OneBits(n) == IF n = 0 THEN 0 ELSE (n % 2) + OneBits(n \div 2)

RECURSIVE Log2(_)
\* log2(n), rounded down, for n >= 1
Log2(n) == IF n <= 1 THEN 0 ELSE 1 + Log2(n \div 2)

\* the delta bases followed to reconstruct the representation written in
\* revision R
BasesFollowed(r) == RepChainLength(r) - 1

\* C40: with max-linear-deltification a power of two and no node-revision
\* of the line sharing a representation, the representation of the
\* node-revision with predecessor count n is reconstructed through at most
\* (n mod L) + the number of 1-bits of (n div L) delta bases, which is at
\* most (L - 1) + log2(n) + 1.
C40DeltaChainDepthIsBounded ==
  LET L == maxLinearDeltification IN
  (L > 0 /\ BitAnd(L, L - 1) = 0 /\ SharedCount = 0) =>
    \A r \in 1..Len(reps) :
      LET n == r - 1 IN
      /\ BasesFollowed(r) <= (n % L) + OneBits(n \div L)
      /\ n >= 1 => (n % L) + OneBits(n \div L) <= (L - 1) + Log2(n) + 1

\* C40: with max-linear-deltification = 2 and the default walk limit, the
\* node-revision with predecessor count 7 is reconstructed through three
\* delta bases, one of the linear tail and two skip-deltas.
C40SevenThroughThreeBases ==
  /\ maxLinearDeltification = 2
  /\ maxDeltificationWalk = SVN_FS_FS_MAX_DELTIFICATION_WALK
  /\ SharedCount = 0
  /\ Len(reps) >= 8
  /\ BasesFollowed(8) = 3
====
